---- MODULE Spec2Model ----
(***************************************************************************)
(* Mission session state machine of the EVE mission tracker                *)
(* (MissionTracker, src/unnamed/part_000), together with the collaborators *)
(* it touches: the localStorage slot 'active-mission', the IndexedDB       *)
(* 'missions' store (MissionDB.addMission, src/unnamed/part_004) and the   *)
(* page life cycle of src/js/app.js (reload, initApp, button handlers).    *)
(*                                                                         *)
(* Time is counted in milliseconds, as Date does.  A calendar date string  *)
(* "YYYY-MM-DD" is represented by its day number, a time string "HH:MM:SS" *)
(* by the triple <<h, m, s>>.  Fractions (totalTimeMinutes, iskPerHour)    *)
(* are exact rationals <<numerator, denominator>> in lowest terms; the     *)
(* rounding of IEEE doubles is not modelled.                               *)
(***************************************************************************)
EXTENDS Integers, Sequences, FiniteSets, Bags, TLC

----------------------------------------------------------------------------
(* Calendar arithmetic of Date *)

MsPerSec  == 1000
MsPerMin  == 60000
MsPerHour == 3600000
MsPerDay  == 24 * MsPerHour

(* Bounds of the exploration *)
MaxStarts  == 2      \* successful or half-done startMission calls
MaxAdvance == 2      \* advances of the wall clock
MaxPending == 2      \* completeMission invocations awaiting addMission

ClockStep  == 100 * MsPerSec                                    \* ms per advance
InitNows   == {MsPerDay + 23 * MsPerHour + 57 * MsPerMin + 600} \* 23:57:00.600 UTC of day 1
TzOffsets  == {0 - MsPerHour, 0}

Null == <<>>     \* JavaScript null / undefined / a missing localStorage key

----------------------------------------------------------------------------
(* Exact rationals *)

Abs(x) == IF x < 0 THEN 0 - x ELSE x

\* n / d with d > 0, in lowest terms
Rat(n, d) ==
  LET RECURSIVE GCD(_, _)
      GCD(a, b) == IF b = 0 THEN a ELSE GCD(b, a % b)
      g == GCD(Abs(n), d)
  IN  <<n \div g, d \div g>>

RatLess(p, q) == p[1] * q[2] < q[1] * p[2]

\* Math.max(p, q)
MathMax(p, q) == IF RatLess(p, q) THEN q ELSE p

----------------------------------------------------------------------------
VARIABLES
  now,                  \* the wall clock, ms since the epoch (UTC)
  tz,                   \* offset of local time from UTC, ms
  activeMission,        \* MissionTracker.activeMission
  timerInterval,        \* MissionTracker.timerInterval: TRUE iff an interval is set
  selectedTransactions, \* MissionTracker.selectedTransactions
  inventoryItems,       \* MissionTracker.inventoryItems
  activeMissionItem,    \* localStorage['active-mission']: Null or the stored text
  timerDisplay,         \* what #mission-timer shows, Null while the element is hidden
  missions,             \* keys (id) of the records in the IndexedDB object store 'missions'
  pending,              \* completeMission invocations suspended in addMission, oldest
                        \* first: the key (id) of the record each one passed
  initPc,               \* position of initApp since the last page load
  lastResult,           \* the handler that returned last and the error it threw, if any
  nStarts, nAdvance, opened,  \* history, read by no action
  priceCache,           \* MarketAPI.priceCache: normalized name -> price, Null if absent
  typeIdCache,          \* MarketAPI.typeIdCache: normalized name -> type ID, null or absent
  cacheTimestamp,       \* MarketAPI.cacheTimestamp, 0 for null
  lastApiCall,          \* MarketAPI.lastApiCall
  currentPriceHub,      \* MarketAPI.currentPriceHub
  calls,                \* the bag of getItemPrice invocations suspended in an await
  lastPrice,            \* the getItemPrice invocation that returned last
  lookupRequests,       \* history: how many name-lookup requests were sent, and the
                        \* instant of the last one
  settled,              \* history: per normalized name, the first price returned since
                        \* the last hub switch or cache clear and within the expiry
                        \* window, Null if none
  expired,              \* history: per normalized name, TRUE iff its cache entry was
                        \* written more than the expiry window ago
  nCalls, nElapse,      \* history, read by no action
  batch,                \* the getBatchItemPrices invocation: its items, loop index i,
                        \* batchResults, priceMap and position
  pricing,              \* the getPrices([typeId]) invocation of api.js: its position,
                        \* the answer to its order request and what it returned
  estimated,            \* the estimateItemPrice calls made, oldest first: the name
                        \* passed and the value returned
  parsed                \* the call of a parser (TransactionParser.parse, parseAmount,
                        \* parseFitting, InventoryParser.parseLine or
                        \* InventoryParser.parse): what was passed, what was returned
                        \* and, for InventoryParser.parse, its position

missionVars == <<now, tz, activeMission, timerInterval, selectedTransactions,
                 inventoryItems, activeMissionItem, timerDisplay, missions, pending,
                 initPc, lastResult, nStarts, nAdvance, opened>>

marketVars == <<priceCache, typeIdCache, cacheTimestamp, lastApiCall, currentPriceHub,
                calls, lastPrice, lookupRequests, settled, expired, nCalls, nElapse>>

\* the invocations of the functions that keep no state between calls
pureVars == <<pricing, estimated, parsed>>

vars == <<missionVars, marketVars, batch, pureVars>>

----------------------------------------------------------------------------
(* Date conversions *)

\* new Date(t).toISOString().split('T')[0]: the UTC calendar date
ISODate(t) == t \div MsPerDay

\* new Date(t).toTimeString().split(' ')[0]: the local time of day, whole seconds
TimeString(t) ==
  LET s == ((t + tz) % MsPerDay) \div MsPerSec
  IN  <<s \div 3600, (s % 3600) \div 60, s % 60>>

\* new Date(`${date}T${time}`): a date-time without zone is read as local time
ParseDateTime(date, time) ==
  date * MsPerDay + (time[1] * 3600 + time[2] * 60 + time[3]) * MsPerSec - tz

----------------------------------------------------------------------------
(* JSON text of the localStorage slot *)

\* JSON.stringify(mission): the text of an object of strings and finite numbers
JSONstringify(m) == [text |-> "object", value |-> m]

CorruptText == [text |-> "{\"id\":\"mission-", value |-> Null]

\* JSON.parse(text) succeeds on the text of an object and throws otherwise
JSONparses(t) == t.text = "object"
JSONparse(t) == t.value

----------------------------------------------------------------------------
(* Inputs *)

\* Wallet entries as the transaction parser produces them (type, amount, description)
Bounty     == [type |-> "bounty",  amount |-> 5,  description |-> "Bounty Prizes"]
Reward     == [type |-> "mission", amount |-> 7,  description |-> "Agent Mission Reward"]
TimeBonus  == [type |-> "mission", amount |-> 2,  description |-> "Agent Mission Time Bonus Reward"]
MarketFee  == [type |-> "market",  amount |-> 0 - 4, description |-> "Market Transaction Tax"]

TransactionLists == {<<>>, <<Bounty, Reward, Bounty, TimeBonus, MarketFee>>}

\* Inventory items; an item whose price never resolved has no totalValue
InventoryLists == {<<>>, <<[name |-> "Tritanium", totalValue |-> 10], [name |-> "Scrap"]>>}

\* Contents of #expense-ammo, #expense-repairs, #expense-other, one character per element
ExpenseForms == {
  [ammo |-> <<>>,          repairs |-> <<"a", "7">>,  other |-> <<"0">>],
  [ammo |-> <<"1", "2">>,  repairs |-> <<"-", "2">>,  other |-> <<" ", "3", ".", "9">>] }

----------------------------------------------------------------------------
(* parseInt(s) || 0 *)

IsDigit(c) == c \in {"0", "1", "2", "3", "4", "5", "6", "7", "8", "9"}
DigitValue(c) ==
  LET Digits == <<"0", "1", "2", "3", "4", "5", "6", "7", "8", "9">>
  IN  (CHOOSE i \in 1..10 : Digits[i] = c) - 1

\* parseInt yields NaN when no digit follows the optional sign, and NaN || 0 is 0
ParseIntOrZero(str) ==
  LET RECURSIVE SkipSpaces(_)
      SkipSpaces(t) == IF t # <<>> /\ Head(t) = " " THEN SkipSpaces(Tail(t)) ELSE t
      \* value of the longest prefix of digits of t, continuing from acc
      RECURSIVE DigitPrefix(_, _)
      DigitPrefix(t, acc) ==
        IF t # <<>> /\ IsDigit(Head(t))
          THEN DigitPrefix(Tail(t), 10 * acc + DigitValue(Head(t)))
          ELSE acc
      s    == SkipSpaces(str)
      neg  == s # <<>> /\ Head(s) = "-"
      body == IF s # <<>> /\ Head(s) \in {"-", "+"} THEN Tail(s) ELSE s
  IN  IF body = <<>> \/ ~IsDigit(Head(body)) THEN 0
      ELSE IF neg THEN 0 - DigitPrefix(body, 0) ELSE DigitPrefix(body, 0)

----------------------------------------------------------------------------
(* Helpers of MissionTracker *)

\* tx.description.toLowerCase().includes('time bonus')
IncludesTimeBonus(description) == description \in {"Agent Mission Time Bonus Reward"}

\* the forEach of getSelectedTransactions, totals so far in acc
RECURSIVE SelectedTotals(_, _)
SelectedTotals(txs, acc) ==
  IF txs = <<>> THEN acc
  ELSE LET tx == Head(txs)
       IN  SelectedTotals(Tail(txs),
             IF tx.type = "bounty"
               THEN [acc EXCEPT !.bounties = @ + tx.amount]
             ELSE IF tx.type = "mission" /\ IncludesTimeBonus(tx.description)
               THEN [acc EXCEPT !.timeBonus = @ + tx.amount]
             ELSE IF tx.type = "mission"
               THEN [acc EXCEPT !.missionReward = @ + tx.amount]
             ELSE acc)

getSelectedTransactions(txs) ==
  SelectedTotals(txs, [bounties |-> 0, missionReward |-> 0, timeBonus |-> 0])

RECURSIVE getInventoryValue(_)
getInventoryValue(items) ==
  IF items = <<>> THEN 0
  ELSE (IF "totalValue" \in DOMAIN Head(items) THEN Head(items).totalValue ELSE 0)
       + getInventoryValue(Tail(items))

\* ElapsedMs without the clamp `if (elapsedMs < 0) elapsedMs = 0`
ElapsedMsSigned(m, t) ==
  LET missionDate      == IF "date" \in DOMAIN m THEN m.date ELSE ISODate(t)
      missionStartTime == IF "startTime" \in DOMAIN m THEN m.startTime ELSE <<0, 0, 0>>
  IN  t - ParseDateTime(missionDate, missionStartTime)

\* elapsed ms of mission m at instant t, as updateTimerUI and getCurrentDuration compute it
ElapsedMs(m, t) ==
  LET missionDate      == IF "date" \in DOMAIN m THEN m.date ELSE ISODate(t)
      missionStartTime == IF "startTime" \in DOMAIN m THEN m.startTime ELSE <<0, 0, 0>>
      elapsedMs        == t - ParseDateTime(missionDate, missionStartTime)
  IN  IF elapsedMs < 0 THEN 0 ELSE elapsedMs

HoursMinutesSeconds(elapsedMs) ==
  [hours   |-> elapsedMs \div MsPerHour,
   minutes |-> (elapsedMs % MsPerHour) \div MsPerMin,
   seconds |-> (elapsedMs % MsPerMin) \div MsPerSec]

getCurrentDuration(m, t) ==
  IF m = Null THEN [hours |-> 0, minutes |-> 0, seconds |-> 0]
  ELSE HoursMinutesSeconds(ElapsedMs(m, t))

\* text that updateTimerUI leaves in #mission-timer
updateTimerUI(m, t, shown) ==
  IF m = Null THEN shown ELSE HoursMinutesSeconds(ElapsedMs(m, t))

\* the object built by startMission from the form data of the submit handler
NewMission(t) ==
  [id        |-> <<"mission", ISODate(t), t>>,
   date      |-> ISODate(t),
   startTime |-> TimeString(t),
   income    |-> [bounties |-> 0, missionReward |-> 0, timeBonus |-> 0, lootValue |-> 0],
   expenses  |-> [ammo |-> 0, repairs |-> 0, other |-> 0]]

\* TotalTimeMinutes with the floor at half a minute instead of one
TotalTimeMinutesHalfFloor(date, start, end) ==
  MathMax(Rat(ParseDateTime(date, end) - ParseDateTime(date, start), MsPerMin), Rat(1, 2))

\* Math.max(durationMs / 60000, 1)
TotalTimeMinutes(date, start, end) ==
  MathMax(Rat(ParseDateTime(date, end) - ParseDateTime(date, start), MsPerMin), Rat(1, 1))

TotalIncome(m) ==
  m.income.bounties + m.income.missionReward + m.income.timeBonus + m.income.lootValue

TotalExpenses(m) == m.expenses.ammo + m.expenses.repairs + m.expenses.other

\* IskPerHour without the factor of 60 minutes per hour
IskPerMinute(profit, minutes) == Rat(profit * minutes[2], minutes[1])

\* (profit / totalTimeMinutes) * 60
IskPerHour(profit, minutes) == Rat(profit * minutes[2] * 60, minutes[1])

\* the record completeMission fills in before it calls addMission
Finalized(m, t, txs, items, form) ==
  LET endTime  == TimeString(t)
      minutes  == TotalTimeMinutes(m.date, m.startTime, endTime)
      td       == getSelectedTransactions(txs)
      income   == [bounties |-> td.bounties, missionReward |-> td.missionReward,
                   timeBonus |-> td.timeBonus, lootValue |-> getInventoryValue(items)]
      expenses == [ammo    |-> ParseIntOrZero(form.ammo),
                   repairs |-> ParseIntOrZero(form.repairs),
                   other   |-> ParseIntOrZero(form.other)]
      filled   == [id |-> m.id, date |-> m.date, startTime |-> m.startTime,
                   income |-> income, expenses |-> expenses,
                   endTime |-> endTime, totalTimeMinutes |-> minutes]
  IN  [id |-> filled.id, date |-> filled.date, startTime |-> filled.startTime,
       income |-> filled.income, expenses |-> filled.expenses,
       endTime |-> filled.endTime, totalTimeMinutes |-> filled.totalTimeMinutes,
       iskPerHour |-> IskPerHour(TotalIncome(filled) - TotalExpenses(filled), minutes)]

----------------------------------------------------------------------------
(* State after a first page load with empty storage *)

\* the value is recorded for getActiveMission only: the id of the session returned
Result(op, error) == [op |-> op, error |-> error, value |-> Null]

MissionInit ==
  /\ now \in InitNows
  /\ tz \in TzOffsets
  /\ activeMission = Null
  /\ timerInterval = FALSE
  /\ selectedTransactions = <<>>
  /\ inventoryItems = <<>>
  /\ activeMissionItem = Null
  /\ timerDisplay = Null
  /\ missions = {}
  /\ pending = <<>>
  /\ initPc = "loading"
  /\ lastResult = Result("load", "none")
  /\ nStarts = 0
  /\ nAdvance = 0
  /\ opened = {}

----------------------------------------------------------------------------
(* MissionTracker *)

\* startTimer(), running with the mission m in activeMission
startTimer(m) ==
  /\ timerInterval' = TRUE
  /\ timerDisplay' = updateTimerUI(m, now, timerDisplay)

\* startMission: throw new Error('There is already an active mission...')
StartMissionRejected ==
  /\ lastResult' = Result("startMission", "AlreadyActive")
  /\ UNCHANGED <<now, tz, activeMission, timerInterval, selectedTransactions,
                 inventoryItems, activeMissionItem, timerDisplay, missions, pending,
                 initPc, nStarts, nAdvance, opened>>

\* startMission past its check: build the mission, keep it, store it, start the timer
StartMissionAccepted ==
  /\ nStarts < MaxStarts
  /\ LET mission == NewMission(now)
     IN  /\ activeMission' = mission
         /\ activeMissionItem' = JSONstringify(mission)
         /\ startTimer(mission)
         /\ opened' = opened \cup {[id |-> mission.id, startTime |-> mission.startTime]}
  /\ lastResult' = Result("startMission", "none")
  /\ nStarts' = nStarts + 1
  /\ UNCHANGED <<now, tz, selectedTransactions, inventoryItems, missions, pending,
                 initPc, nAdvance>>

\* StartMission without the check of activeMission
StartMissionUnchecked == StartMissionAccepted

\* submit handler of #new-mission-form calling startMission(missionData)
StartMission ==
  IF activeMission # Null THEN StartMissionRejected ELSE StartMissionAccepted

\* CompleteMissionRejected discarding the staged data before it throws
CompleteMissionRejectedClearing ==
  /\ lastResult' = Result("completeMission", "NoActiveSession")
  /\ selectedTransactions' = <<>>
  /\ inventoryItems' = <<>>
  /\ UNCHANGED <<now, tz, activeMission, timerInterval, activeMissionItem,
                 timerDisplay, missions, pending, initPc, nStarts, nAdvance, opened>>

\* completeMission: throw new Error('No active mission to complete.')
CompleteMissionRejected ==
  /\ lastResult' = Result("completeMission", "NoActiveSession")
  /\ UNCHANGED <<now, tz, activeMission, timerInterval, selectedTransactions,
                 inventoryItems, activeMissionItem, timerDisplay, missions, pending,
                 initPc, nStarts, nAdvance, opened>>

\* completeMission from stopTimer() to the call missionDB.addMission(activeMission)
CompleteMissionCalls ==
  /\ Len(pending) < MaxPending
  /\ \E form \in ExpenseForms :
       LET record == Finalized(activeMission, now, selectedTransactions,
                               inventoryItems, form)
       IN  /\ activeMission' = record
           /\ pending' = Append(pending, record.id)
  /\ timerInterval' = FALSE
  /\ UNCHANGED <<now, tz, selectedTransactions, inventoryItems, activeMissionItem,
                 timerDisplay, missions, initPc, lastResult, nStarts, nAdvance, opened>>

\* click handler of #save-mission-btn calling completeMission(), up to its await
CompleteMission ==
  IF activeMission = Null THEN CompleteMissionRejected ELSE CompleteMissionCalls

\* The oldest addMission request settles (request.onsuccess or request.onerror of
\* store.add, which fails whenever the key 'id' is already in the store) and, in
\* the same task, completeMission() runs from its await to its return or throw
CompleteMissionResume ==
  /\ pending # <<>>
  /\ pending' = Tail(pending)
  /\ \/ /\ Head(pending) \notin missions
        /\ missions' = missions \cup {Head(pending)}
        /\ activeMissionItem' = Null
        /\ activeMission' = Null
        /\ selectedTransactions' = <<>>
        /\ inventoryItems' = <<>>
        /\ timerDisplay' = Null
        /\ lastResult' = Result("completeMission", "none")
        /\ opened' = {o \in opened : o.id # Head(pending)}
     \/ /\ lastResult' = Result("completeMission", "PersistenceFailure")
        /\ UNCHANGED <<missions, activeMissionItem, activeMission,
                       selectedTransactions, inventoryItems, timerDisplay, opened>>
  /\ UNCHANGED <<now, tz, timerInterval, initPc, nStarts, nAdvance>>

\* getActiveMission returning nothing for the session it holds in memory
getActiveMissionForgetful(m, text) ==
  IF m # Null THEN [returned |-> Null, stored |-> text]
  ELSE IF text = Null THEN [returned |-> Null, stored |-> text]
  ELSE IF JSONparses(text) THEN [returned |-> JSONparse(text), stored |-> text]
  ELSE [returned |-> Null, stored |-> Null]

\* getActiveMission without the removeItem of the catch clause
getActiveMissionKeepingText(m, text) ==
  IF m # Null THEN [returned |-> m, stored |-> text]
  ELSE IF text = Null THEN [returned |-> Null, stored |-> text]
  ELSE IF JSONparses(text) THEN [returned |-> JSONparse(text), stored |-> text]
  ELSE [returned |-> Null, stored |-> text]

\* getActiveMission() with m in memory and text in localStorage: the session it
\* returns (and leaves in activeMission) and the text it leaves in localStorage
getActiveMission(m, text) ==
  IF m # Null THEN [returned |-> m, stored |-> text]
  ELSE IF text = Null THEN [returned |-> Null, stored |-> text]
  ELSE IF JSONparses(text) THEN [returned |-> JSONparse(text), stored |-> text]
  ELSE [returned |-> Null, stored |-> Null]

\* getActiveMission(), called by the end-mission button and the keyboard shortcuts
GetActiveMission ==
  LET got == getActiveMission(activeMission, activeMissionItem)
  IN  /\ activeMission' = got.returned
      /\ activeMissionItem' = got.stored
      /\ lastResult' = [op |-> "getActiveMission", error |-> "none",
                        value |-> IF got.returned = Null THEN Null ELSE got.returned.id]
      /\ UNCHANGED <<now, tz, timerInterval, selectedTransactions, inventoryItems,
                     timerDisplay, missions, pending, initPc, nStarts, nAdvance, opened>>

\* the interval callback updateTimerUI
TimerTick ==
  /\ timerInterval
  /\ timerDisplay' = updateTimerUI(activeMission, now, timerDisplay)
  /\ UNCHANGED <<now, tz, activeMission, timerInterval, selectedTransactions, inventoryItems, activeMissionItem, missions,
                 pending, initPc, lastResult, nStarts, nAdvance, opened>>

SetSelectedTransactions ==
  /\ \E transactions \in TransactionLists : selectedTransactions' = transactions
  /\ UNCHANGED <<now, tz, activeMission, timerInterval, inventoryItems,
                 activeMissionItem, timerDisplay, missions, pending, initPc,
                 lastResult, nStarts, nAdvance, opened>>

SetInventoryItems ==
  /\ \E items \in InventoryLists : inventoryItems' = items
  /\ UNCHANGED <<now, tz, activeMission, timerInterval, selectedTransactions, activeMissionItem, timerDisplay, missions,
                 pending, initPc, lastResult, nStarts, nAdvance, opened>>

----------------------------------------------------------------------------
(* Page life cycle, src/js/app.js *)

\* initApp() from its getActiveMission() call on; the awaits before it
\* (MarketAPI.init, loadDashboardData) let handlers run first
InitApp ==
  LET got == getActiveMission(activeMission, activeMissionItem)
  IN  /\ initPc = "loading"
      /\ initPc' = "done"
      /\ activeMission' = got.returned
      /\ activeMissionItem' = got.stored
      /\ IF got.returned # Null
           THEN startTimer(got.returned)
           ELSE UNCHANGED <<timerInterval, timerDisplay>>
      /\ UNCHANGED <<now, tz, selectedTransactions, inventoryItems, missions, pending,
                     lastResult, nStarts, nAdvance, opened>>

\* the page is reloaded: every module variable and the DOM start afresh,
\* suspended handlers are abandoned, localStorage and IndexedDB remain
Reload ==
  /\ activeMission' = Null
  /\ timerInterval' = FALSE
  /\ selectedTransactions' = <<>>
  /\ inventoryItems' = <<>>
  /\ timerDisplay' = Null
  /\ pending' = <<>>
  /\ initPc' = "loading"
  /\ lastResult' = Result("load", "none")
  /\ UNCHANGED <<now, tz, activeMissionItem, missions, nStarts, nAdvance, opened>>

\* the wall clock moves on
Advance ==
  /\ nAdvance < MaxAdvance
  /\ now' = now + ClockStep
  /\ nAdvance' = nAdvance + 1
  /\ UNCHANGED <<tz, activeMission, timerInterval, selectedTransactions,
                 inventoryItems, activeMissionItem, timerDisplay, missions, pending,
                 initPc, lastResult, nStarts, opened>>

\* the stored text is damaged outside the application
CorruptStoredMission ==
  /\ activeMissionItem # Null
  /\ activeMissionItem' = CorruptText
  /\ UNCHANGED <<now, tz, activeMission, timerInterval, selectedTransactions, inventoryItems, timerDisplay, missions,
                 pending, initPc, lastResult, nStarts, nAdvance, opened>>

----------------------------------------------------------------------------
(* Strings: toLowerCase, trim, includes *)

\* the i-th character of s, as a string of length 1
CharAt(s, i) == SubSeq(s, i, i)

\* s.toLowerCase()
RECURSIVE toLowerCase(_)
toLowerCase(s) ==
  LET UpperCase == "ABCDEFGHIJKLMNOPQRSTUVWXYZ"
      LowerCase == "abcdefghijklmnopqrstuvwxyz"
      LowerChar(c) ==
        IF \E i \in 1..Len(UpperCase) : CharAt(UpperCase, i) = c
          THEN CharAt(LowerCase, CHOOSE i \in 1..Len(UpperCase) : CharAt(UpperCase, i) = c)
          ELSE c
  IN  IF s = "" THEN "" ELSE LowerChar(CharAt(s, 1)) \o toLowerCase(SubSeq(s, 2, Len(s)))

IsSpace(c) == c \in {" ", "\t", "\n", "\r"}

\* s.trim()
RECURSIVE trim(_)
trim(s) ==
  IF s = "" THEN ""
  ELSE IF IsSpace(CharAt(s, 1)) THEN trim(SubSeq(s, 2, Len(s)))
  ELSE IF IsSpace(CharAt(s, Len(s))) THEN trim(SubSeq(s, 1, Len(s) - 1))
  ELSE s

\* s.includes(keyword)
includes(s, keyword) ==
  \E i \in 1..(Len(s) - Len(keyword) + 1) : SubSeq(s, i, i + Len(keyword) - 1) = keyword

----------------------------------------------------------------------------
(* MarketAPI.estimateItemPrice, src/js/market-api.js *)

\* The decimal number m * 10^e: the ISK amounts of the estimator exceed 2^31
Sci(m, e) == [m |-> m, e |-> e]

\* Values drawn for Math.random(), as fractions <<numerator, denominator>> of [0, 1)
RandomValues == {<<0, 1>>, <<1, 2>>}

\* base + Math.random() * range, for the draw random
Estimate(base, range, random) ==
  [source |-> "estimate", base |-> base, range |-> range, random |-> random]

\* estimateItemPrice(itemName) when Math.random() returns random
estimateItemPrice(itemName, random) ==
  LET name == toLowerCase(itemName)
      has(keyword) == includes(name, keyword)
      E(bm, be, rm, re) == Estimate(Sci(bm, be), Sci(rm, re), random)
  IN  IF has("titan") THEN E(6, 10, 4, 10)
      ELSE IF has("supercarrier") THEN E(15, 9, 1, 10)
      ELSE IF has("dreadnought") THEN E(15, 8, 1, 9)
      ELSE IF has("carrier") THEN E(1, 9, 5, 8)
      ELSE IF has("battleship") THEN E(15, 7, 2, 8)
      ELSE IF has("cruiser") THEN E(3, 7, 5, 7)
      ELSE IF has("battlecruiser") THEN E(5, 7, 1, 8)
      ELSE IF has("frigate") THEN E(1, 6, 5, 6)
      ELSE IF has("destroyer") THEN E(2, 6, 8, 6)
      ELSE IF has("implant") \/ has("eifyr") \/ has("hardwiring") THEN
        IF has("rogue") \/ has("ws-") \/ has("speed") THEN E(5, 7, 2, 8)
        ELSE IF has("squire") \/ has("aiming") \/ has("tracking") THEN E(3, 7, 1, 8)
        ELSE IF has("grade") \/ has("low-grade") \/ has("mid-grade") \/ has("high-grade")
          THEN E(1, 8, 5, 8)
        ELSE E(1, 7, 1, 8)
      ELSE IF has("hardener") \/ has("armor") \/ has("shield") THEN
        IF has("experimental") \/ has("enduring") THEN E(1, 6, 5, 6)
        ELSE IF has("t2") \/ has("ii") THEN E(5, 5, 2, 6)
        ELSE E(5, 4, 2, 5)
      ELSE IF has("gun") \/ has("turret") \/ has("launcher") THEN
        IF has("t2") \/ has("ii") THEN E(1, 6, 5, 6)
        ELSE E(1, 5, 5, 5)
      ELSE IF has("plate") \/ has("extender") THEN E(1, 5, 4, 5)
      ELSE IF has("battery") \/ has("capacitor") THEN E(2, 5, 8, 5)
      ELSE IF has("repair") \/ has("booster") THEN E(3, 5, 12, 5)
      ELSE IF has("blaster") \/ has("cannon") \/ has("beam") THEN E(15, 4, 6, 5)
      ELSE IF has("ammunition") \/ has("charge") THEN E(1, 1, 1, 3)
      ELSE IF has("crystal") \/ has("lens") THEN E(1, 3, 1, 4)
      ELSE IF has("ore") \/ has("mineral") THEN E(1, 2, 5, 3)
      ELSE IF has("blueprint") THEN E(5, 6, 5, 7)
      ELSE IF has("datacores") \/ has("datacore") THEN E(5, 4, 5, 5)
      ELSE IF has("booster") /\ ~has("repair") /\ ~has("shield") THEN E(1, 6, 1, 7)
      ELSE IF has("warp") /\ has("drive") THEN E(25, 6, 75, 6)
      ELSE E(1, 5, 5, 5)

MaxEstimates == 2       \* estimateItemPrice calls

\* Item names passed to estimateItemPrice
EstimateNames == {"Titan", "Supercarrier", "Caldari Battlecruiser", "Frigate", "Rifter"}

\* the estimates of EstimateNames, computed once
EstimateTable ==
  [n \in EstimateNames |-> [r \in RandomValues |-> estimateItemPrice(n, r)]]

\* estimateItemPrice(itemName) is called
EstimateItemPrice ==
  /\ Len(estimated) < MaxEstimates
  /\ \E itemName \in EstimateNames, random \in RandomValues :
       estimated' = Append(estimated, [name |-> itemName,
                                       value |-> EstimateTable[itemName][random]])

----------------------------------------------------------------------------
(* MarketAPI, src/js/market-api.js: price cache, type ID cache, rate limiter *)

CACHE_EXPIRY_MINUTES == 60
MIN_API_INTERVAL == 100

MaxCalls  == 3       \* getItemPrice invocations
MaxElapse == 1       \* passages of time other than the wait for a timer

\* Item names passed to getItemPrice
ItemNames == {"Rifter", " rifter "}

\* itemName.toLowerCase().trim()
normalizedName(itemName) == trim(toLowerCase(itemName))

\* the normalized names and the estimates of ItemNames, computed once
KeyOf == [n \in ItemNames |-> normalizedName(n)]
EstimateOf == [n \in ItemNames |-> [r \in RandomValues |-> estimateItemPrice(n, r)]]

CacheKeys == {KeyOf[n] : n \in ItemNames}

\* typeIdCache[key] of a key that was never written (undefined); a cached null is 0
NoEntry == 0 - 1

\* Arguments of setPriceHub: two hubs and a value that is not a non-empty string
HubArguments == {"Amarr", ""}

\* Lowest sell prices the order book of a hub may show when it is queried
OrderPrices == {5, 7}

\* Lengths of time that may pass between two events, in ms
ElapseSteps == {20, CACHE_EXPIRY_MINUTES * MsPerMin + 1}

\* fallbackItems[normalizedName] || null
fallbackItems(key) ==
  CASE key = "rifter" -> 587
    [] key = "merlin" -> 603
    [] key = "punisher" -> 625
    [] key = "tristan" -> 582
    [] key = "venture" -> 32880
    [] key = "damage control i" -> 519
    [] key = "small armor repairer i" -> 518
    [] key = "small shield booster i" -> 519
    [] key = "plex" -> 29668
    [] key = "skill injector" -> 40519
    [] key = "skill extractor" -> 40520
    [] OTHER -> 0

\* typeID in the answer of fuzzwork.co.uk/api/typeid.php for a name it knows
RemoteTypeId(key) == IF key = "rifter" THEN 587 ELSE 1230

\* a price read from the order book of hub
MarketPrice(hub, price) == [source |-> "market", hub |-> hub, price |-> price]

MarketInit ==
  /\ priceCache = [k \in CacheKeys |-> Null]
  /\ typeIdCache = [k \in CacheKeys |-> NoEntry]
  /\ cacheTimestamp = 0
  /\ lastApiCall = 0
  /\ currentPriceHub = "jita"
  /\ calls = EmptyBag
  /\ lastPrice = Null
  /\ lookupRequests = [count |-> 0, last |-> 0]
  /\ settled = [k \in CacheKeys |-> Null]
  /\ expired = [k \in CacheKeys |-> FALSE]
  /\ nCalls = 0
  /\ nElapse = 0

\* shouldRefreshCache()
shouldRefreshCache ==
  IF cacheTimestamp = 0 THEN TRUE
  ELSE now - cacheTimestamp > CACHE_EXPIRY_MINUTES * MsPerMin

\* a getItemPrice invocation suspended at pc: "sleep" until the instant wake,
\* "lookup" for the answer to its name lookup, "orders" for the orders of hub;
\* caller is 0 for a direct call and the position of the item for a call made by
\* getBatchItemPrices
Call(itemName, caller, pc, wake, hub) ==
  [name |-> itemName, caller |-> caller, pc |-> pc, wake |-> wake, hub |-> hub]

Suspended(pc) == {c \in BagToSet(calls) : c.pc = pc}

\* getItemPrice returns price for itemName: `if (price) priceCache[normalizedName] = price`
\* when the price was fetched (every price it can get here is truthy)
ReturnPrice(itemName, price, fetched) ==
  LET key == KeyOf[itemName]
  IN  /\ lastPrice' = [name |-> itemName, price |-> price, fetched |-> fetched]
      /\ settled' = IF settled[key] = Null THEN [settled EXCEPT ![key] = price]
                    ELSE settled
      /\ IF fetched
           THEN /\ priceCache' = [priceCache EXCEPT ![key] = price]
                /\ expired' = [expired EXCEPT ![key] = FALSE]
           ELSE UNCHANGED <<priceCache, expired>>

\* getItemPrice(itemName) up to its return from the cache or to the first await of
\* findTypeIdByName / fetchESIPrice.  The continuation of `await refreshCache()`
\* is a microtask: no timer, response or event handler runs before it.
getItemPriceFor(itemName, caller) ==
  /\   LET key == KeyOf[itemName]
           timeSinceLastCall == now - lastApiCall
       IN  /\ cacheTimestamp' = IF shouldRefreshCache THEN now ELSE cacheTimestamp
           /\ IF priceCache[key] # Null
                THEN /\ ReturnPrice(itemName, priceCache[key], FALSE)
                     /\ UNCHANGED <<calls, lastApiCall, lookupRequests>>
              ELSE IF typeIdCache[key] > 0
                THEN /\ calls' = calls (+) SetToBag({Call(itemName, caller, "orders", 0, currentPriceHub)})
                     /\ UNCHANGED <<lastApiCall, lookupRequests, lastPrice, settled,
                                    priceCache, expired>>
              ELSE IF timeSinceLastCall < MIN_API_INTERVAL
                THEN /\ calls' = calls (+) SetToBag({Call(itemName, caller, "sleep",
                                          now + (MIN_API_INTERVAL - timeSinceLastCall), "")})
                     /\ UNCHANGED <<lastApiCall, lookupRequests, lastPrice, settled,
                                    priceCache, expired>>
              ELSE /\ lastApiCall' = now
                   /\ lookupRequests' = [count |-> lookupRequests.count + 1, last |-> now]
                   /\ calls' = calls (+) SetToBag({Call(itemName, caller, "lookup", 0, "")})
                   /\ UNCHANGED <<lastPrice, settled, priceCache, expired>>
  /\ UNCHANGED <<typeIdCache, currentPriceHub>>

\* a direct call of getItemPrice(itemName)
getItemPrice(itemName) ==
  /\ nCalls < MaxCalls
  /\ nCalls' = nCalls + 1
  /\ getItemPriceFor(itemName, 0)
  /\ UNCHANGED nElapse

GetItemPrice == \E itemName \in ItemNames : getItemPrice(itemName)

\* findTypeIdByName after its setTimeout: lastApiCall = Date.now(); fetch(apiUrl)
RateLimitWake ==
  \E c \in Suspended("sleep") :
    /\ now >= c.wake
    /\ lastApiCall' = now
    /\ lookupRequests' = [count |-> lookupRequests.count + 1, last |-> now]
    /\ calls' = (calls (-) SetToBag({c})) (+) SetToBag({[c EXCEPT !.pc = "lookup", !.wake = 0]})
    /\ UNCHANGED <<priceCache, typeIdCache, cacheTimestamp, currentPriceHub, lastPrice,
                   settled, expired, nCalls, nElapse>>

\* The name lookup of a call is answered: a type ID, an empty result, or a failure
\* (answered from fallbackItems).  Without a type ID fetchESIPrice throws and
\* fetchItemPrice returns the estimate; with one, the order book of the current
\* hub is requested.
LookupResponse ==
  \E c \in Suspended("lookup"), outcome \in {"found", "none", "failed"} :
    LET key    == KeyOf[c.name]
        typeId == CASE outcome = "found"  -> RemoteTypeId(key)
                    [] outcome = "none"   -> 0
                    [] outcome = "failed" -> fallbackItems(key)
    IN  /\ typeIdCache' = [typeIdCache EXCEPT ![key] = typeId]
        /\ IF typeId = 0
             THEN /\ \E random \in RandomValues :
                       ReturnPrice(c.name, EstimateOf[c.name][random], TRUE)
                  /\ calls' = calls (-) SetToBag({c})
             ELSE /\ calls' = (calls (-) SetToBag({c}))
                                (+) SetToBag({[c EXCEPT !.pc = "orders", !.hub = currentPriceHub]})
                  /\ UNCHANGED <<lastPrice, settled, priceCache, expired>>
        /\ UNCHANGED <<cacheTimestamp, lastApiCall, currentPriceHub, lookupRequests,
                       nCalls, nElapse>>

\* The order request of a call is answered: the lowest sell price of the hub asked,
\* or a failure (HTTP error, no orders, no sell orders), on which fetchItemPrice
\* returns the estimate.  getItemPrice caches what it got and returns it.
OrdersResponse ==
  \E c \in Suspended("orders") :
    /\ \/ \E lowestPrice \in OrderPrices :
            ReturnPrice(c.name, MarketPrice(c.hub, lowestPrice), TRUE)
       \/ \E random \in RandomValues :
            ReturnPrice(c.name, EstimateOf[c.name][random], TRUE)
    /\ calls' = calls (-) SetToBag({c})
    /\ UNCHANGED <<typeIdCache, cacheTimestamp, lastApiCall, currentPriceHub,
                   lookupRequests, nCalls, nElapse>>

\* setPriceHub(hub)
setPriceHub(hub) ==
    /\ IF hub # ""
         THEN /\ currentPriceHub' = toLowerCase(hub)
              /\ priceCache' = [k \in CacheKeys |-> Null]
              /\ cacheTimestamp' = 0
              /\ settled' = [k \in CacheKeys |-> Null]
              /\ expired' = [k \in CacheKeys |-> FALSE]
         ELSE UNCHANGED <<currentPriceHub, priceCache, cacheTimestamp, settled, expired>>
    /\ UNCHANGED <<typeIdCache, lastApiCall, calls, lastPrice, lookupRequests,
                   nCalls, nElapse>>

SetPriceHub == \E hub \in HubArguments : setPriceHub(hub)

\* clearAllCaches()
ClearAllCaches ==
  /\ priceCache' = [k \in CacheKeys |-> Null]
  /\ typeIdCache' = [k \in CacheKeys |-> NoEntry]
  /\ cacheTimestamp' = 0
  /\ settled' = [k \in CacheKeys |-> Null]
  /\ expired' = [k \in CacheKeys |-> FALSE]
  /\ UNCHANGED <<lastApiCall, currentPriceHub, calls, lastPrice, lookupRequests,
                 nCalls, nElapse>>

\* time passes: a moment, or more than the expiry window of the cache (every price
\* returned before is then older than the window, and so is every cache entry)
Elapse ==
  /\ nElapse < MaxElapse
  /\ nElapse' = nElapse + 1
  /\ \E d \in ElapseSteps :
       /\ now' = now + d
       /\ IF d > CACHE_EXPIRY_MINUTES * MsPerMin
            THEN /\ settled' = [k \in CacheKeys |-> Null]
                 /\ expired' = [k \in CacheKeys |-> priceCache[k] # Null]
            ELSE UNCHANGED <<settled, expired>>
  /\ UNCHANGED <<priceCache, typeIdCache, cacheTimestamp, lastApiCall, currentPriceHub,
                 calls, lastPrice, lookupRequests, nCalls>>

\* time passes until the first pending timer is due
TimerElapse ==
  LET due == {c.wake : c \in Suspended("sleep")}
  IN  /\ due # {}
      /\ \A w \in due : now < w
      /\ now' = CHOOSE w \in due : \A v \in due : w <= v
      /\ UNCHANGED marketVars

----------------------------------------------------------------------------
(* MarketAPI.getBatchItemPrices (src/js/market-api.js) *)

batchSize == 3

MaxItems == 4           \* longest items array passed to getBatchItemPrices

RECURSIVE SeqsOf(_, _)
\* the sequences over S of length n
SeqsOf(S, n) ==
  IF n = 0 THEN {<<>>}
  ELSE {Append(q, x) : q \in SeqsOf(S, n - 1), x \in S}

\* the arrays of { name, quantity } passed: the names
BatchInputs == UNION {SeqsOf(ItemNames, n) : n \in 0..MaxItems}

\* the positions of items.slice(i, i + batchSize)
Group(items, i) == {k \in DOMAIN items : i < k /\ k <= i + batchSize}

\* One turn of the for loop up to batch.map: the callbacks run in the order of the
\* items, each up to its first await.  When shouldRefreshCache() holds, the first
\* callback sets cacheTimestamp in refreshCache and is suspended at
\* `await refreshCache()`: it goes on after the other callbacks of the group.
BeginGroup(b, i) ==
  LET first == i + 1
      rest == [j \in 1..(Cardinality(Group(b.items, i)) - 1) |-> first + j]
  IN  /\ batch' = [b EXCEPT !.pc = "starting", !.i = i,
                            !.order = IF shouldRefreshCache THEN rest \o <<first>>
                                      ELSE <<first>> \o rest,
                            !.results = [k \in DOMAIN b.items |-> Null]]
      /\ cacheTimestamp' = IF shouldRefreshCache THEN now ELSE cacheTimestamp
      /\ UNCHANGED <<priceCache, typeIdCache, lastApiCall, currentPriceHub, calls,
                     lastPrice, lookupRequests, settled, expired, nCalls, nElapse>>

\* getBatchItemPrices(items) is called
GetBatchItemPrices ==
  /\ batch.pc = "idle"
  /\ \E items \in BatchInputs :
       IF items = <<>>
         THEN /\ batch' = [batch EXCEPT !.pc = "done"]
              /\ UNCHANGED marketVars
         ELSE BeginGroup([batch EXCEPT !.items = items], 0)

\* the next callback of batch.map runs getItemPrice(item.name) up to its first
\* await, or to its return from the cache
BatchStartCall ==
  /\ batch.pc = "starting"
  /\ LET k == Head(batch.order)
     IN  /\ getItemPriceFor(batch.items[k], k)
         /\ batch' = [batch EXCEPT
                        !.order = Tail(batch.order),
                        !.pc = IF Tail(batch.order) = <<>> THEN "waiting" ELSE "starting",
                        !.results[k] = IF calls' = calls THEN lastPrice'.price ELSE Null]
  /\ UNCHANGED <<nCalls, nElapse>>

\* a step of a suspended getItemPrice call; when it returns, its callback
\* resolves with { name, price }
BatchCallStep(step) ==
  /\ batch.pc # "starting"
  /\ step
  /\ IF BagCardinality(calls') < BagCardinality(calls)
       THEN LET c == CHOOSE c \in BagToSet(calls (-) calls') : TRUE
            IN  batch' = [batch EXCEPT !.results[c.caller] = lastPrice'.price]
       ELSE UNCHANGED batch

\* as BatchGroupDone, but returning priceMap after the first group
BatchGroupDoneReturning ==
  LET group == Group(batch.items, batch.i)
      last(n) == CHOOSE k \in group :
                   /\ batch.items[k] = n
                   /\ \A j \in group : batch.items[j] = n => j <= k
  IN  /\ batch.pc = "waiting"
      /\ \A k \in group : batch.results[k] # Null
      /\ batch' = [batch EXCEPT
                     !.priceMap = [n \in ItemNames |->
                                     IF \E k \in group : batch.items[k] = n
                                       THEN batch.results[last(n)]
                                       ELSE batch.priceMap[n]],
                     !.pc = "done"]
      /\ UNCHANGED marketVars

\* Promise.all(batchPromises) resolves: priceMap[result.name] = result.price in
\* the order of the items, then the pause between groups or the return
BatchGroupDone ==
  LET group == Group(batch.items, batch.i)
      last(n) == CHOOSE k \in group :
                   /\ batch.items[k] = n
                   /\ \A j \in group : batch.items[j] = n => j <= k
  IN  /\ batch.pc = "waiting"
      /\ \A k \in group : batch.results[k] # Null
      /\ batch' = [batch EXCEPT
                     !.priceMap = [n \in ItemNames |->
                                     IF \E k \in group : batch.items[k] = n
                                       THEN batch.results[last(n)]
                                       ELSE batch.priceMap[n]],
                     !.pc = IF batch.i + batchSize < Len(batch.items)
                              THEN "pause" ELSE "done",
                     !.wake = IF batch.i + batchSize < Len(batch.items)
                                THEN now + MsPerSec ELSE 0]
      /\ UNCHANGED marketVars

\* time passes until the pause between two groups is over
BatchPauseElapse ==
  /\ batch.pc = "pause"
  /\ now < batch.wake
  /\ now' = batch.wake
  /\ UNCHANGED <<marketVars, batch, pureVars>>

\* the timer of the pause fires: the next turn of the loop
BatchResume ==
  /\ batch.pc = "pause"
  /\ now >= batch.wake
  /\ BeginGroup(batch, batch.i + batchSize)

----------------------------------------------------------------------------
(* getPrices (src/js/api.js).  Prices are counted in hundredths of an ISK. *)

JITA_4_4_STATION_ID == 60003760

MaxOrders == 41         \* most orders in an answer

OrderCounts == {1, 2, 20, 21, MaxOrders}

Order(location_id, volume_remain, price) ==
  [location_id |-> location_id, volume_remain |-> volume_remain, price |-> price]

\* An answer of n orders to the order request.  The i-th cheapest costs 1, 2, 3,
\* ... ISK or 0.01, 0.04, 0.09, ... ISK (pattern), and stands at the position
\* the arrangement gives it.
OrderBook(n, pattern, arrangement, others) ==
  LET PriceOf(i) == IF pattern = "linear" THEN 100 * i ELSE i * i
      Arrange(i) ==
        CASE arrangement = "ascending"  -> i
          [] arrangement = "descending" -> n + 1 - i
          [] arrangement = "rotated"    -> ((i + (n \div 2) - 1) % n) + 1
      place(i) == CHOOSE j \in 1..n : Arrange(j) = i
      atJita == [i \in 1..n |-> Order(JITA_4_4_STATION_ID, 1, PriceOf(place(i)))]
      \* a station of The Forge other than Jita 4-4
      OtherStation == JITA_4_4_STATION_ID + 1
  IN  CASE others = "none"      -> atJita
        [] others = "elsewhere" -> <<Order(OtherStation, 1, 1)>> \o atJita
        [] others = "sold"      -> atJita \o <<Order(JITA_4_4_STATION_ID, 0, 1)>>
        [] others = "away"      -> [i \in 1..n |-> [atJita[i] EXCEPT !.location_id = OtherStation]]

\* what fetch and response.json() can give: fetch throws, a status other than
\* 2xx, an empty array, an array of orders
Responses ==
  LET OrderBooks ==
        {OrderBook(n, pattern, arrangement, others) :
           n \in OrderCounts, pattern \in {"linear", "square"},
           arrangement \in {"ascending", "descending", "rotated"},
           others \in {"none", "elsewhere", "sold", "away"}}
  IN  {[kind |-> "failed"], [kind |-> "status", status |-> 404],
       [kind |-> "status", status |-> 500], [kind |-> "json", allOrders |-> <<>>]}
        \cup {[kind |-> "json", allOrders |-> book] : book \in OrderBooks}

\* as sortByPrice, but leaving the orders as they were received
sortByPriceUnsorted(orders) == orders

\* orders.sort((a, b) => a.price - b.price)
sortByPrice(orders) == SortSeq(orders, LAMBDA a, b : a.price < b.price)

RECURSIVE totalPrice(_)
\* orders.reduce((sum, order) => sum + order.price, 0)
totalPrice(orders) ==
  IF orders = <<>> THEN 0 ELSE Head(orders).price + totalPrice(Tail(orders))

\* Math.max(1, Math.ceil(length * 0.05)): the double length * 0.05 rounds up to
\* the integer Math.ceil(length / 20) for every length below 5000
top5Count(length) ==
  LET ceil == (length * 5 + 99) \div 100
  IN  IF ceil > 1 THEN ceil ELSE 1

\* Math.round(averagePrice * 100) / 100 where averagePrice = total / count: the
\* nearest hundredth; when the average lies exactly between two hundredths the
\* rounding error of the double decides which of them is returned
finalPrice(total, count) ==
  LET q == total \div count
      r == total % count
  IN  IF 2 * r < count THEN {q}
      ELSE IF 2 * r > count THEN {q + 1}
      ELSE {q, q + 1}

\* `price: null`
NoPrice == 0 - 1

\* The callback of typeIds.map for the answer response: the prices it can resolve
\* with.  Its catch turns every exception into
\* `price: null`: it never rejects.
PriceCallback(response) ==
  IF response.kind # "json" \/ response.allOrders = <<>>
    THEN [rejected |-> FALSE, prices |-> {NoPrice}]
  ELSE
    LET jitaOrders == SelectSeq(response.allOrders,
                             LAMBDA order : /\ order.location_id = JITA_4_4_STATION_ID
                                            /\ order.volume_remain > 0)
        forgeOrders == SelectSeq(response.allOrders, LAMBDA order : order.volume_remain > 0)
        top5Orders == SubSeq(sortByPrice(jitaOrders), 1, top5Count(Len(jitaOrders)))
    IN  IF jitaOrders = <<>>
          THEN IF forgeOrders # <<>>
                 THEN [rejected |-> FALSE, prices |-> {sortByPrice(forgeOrders)[1].price}]
                 ELSE [rejected |-> FALSE, prices |-> {NoPrice}]
          ELSE [rejected |-> FALSE,
                prices |-> finalPrice(totalPrice(top5Orders), Len(top5Orders))]

\* data[typeId].sell.min of the aggregator, if it has one
FuzzworkPrices == {NoPrice, 100}

\* getPrices([typeId]) up to the fetch of the orders; the answer it will get
GetPrices ==
  /\ pricing.pc = "idle"
  /\ \E response \in Responses :
       pricing' = [pricing EXCEPT !.pc = "fetching", !.response = response]

\* The answer arrives and Promise.all settles.  getFuzzworkPrices is called in
\* the catch around Promise.all, that is when a callback rejected.
GetPricesSettle ==
  /\ pricing.pc = "fetching"
  /\ LET result == PriceCallback(pricing.response)
     IN  IF result.rejected
           THEN \E price \in FuzzworkPrices :
                  pricing' = [pricing EXCEPT !.pc = "done", !.price = price,
                                             !.fuzzwork = TRUE]
           ELSE \E price \in result.prices :
                  pricing' = [pricing EXCEPT !.pc = "done", !.price = price]

----------------------------------------------------------------------------
(* TransactionParser (src/unnamed/part_001) *)

\* the character classes of the patterns of parseLine:
\* \d  [.\/-]  [ ]  [ \t]  \s  [\d.,]  [^\t]  [^,]  .
InClass(c, class) ==
  CASE class = "digit"    -> IsDigit(c)
    [] class = "sep"      -> c \in {".", "/", "-"}
    [] class = "space"    -> c = " "
    [] class = "blank"    -> c \in {" ", "\t"}
    [] class = "ws"       -> IsSpace(c)
    [] class = "amount"   -> IsDigit(c) \/ c \in {".", ","}
    [] class = "nottab"   -> c # "\t"
    [] class = "notcomma" -> c # ","
    [] class = "any"      -> c \notin {"\n", "\r"}
    [] class = "newline"  -> c = "\n"
    [] class = "tab"      -> c = "\t"

\* the elements of a pattern: a literal text, or a class repeated min times or
\* more, as often as possible, at most max times unless max is negative; a lazy
\* repetition (+?) is repeated as seldom as possible
Lit(text) == [kind |-> "lit", text |-> text]
Rep(class, min, max) ==
  [kind |-> "rep", class |-> class, min |-> min, max |-> max, lazy |-> FALSE]
Lazy(class, min) ==
  [kind |-> "rep", class |-> class, min |-> min, max |-> -1, lazy |-> TRUE]

\* \d{4}[.\/-]\d{2}[.\/-]\d{2}
DatePattern ==
  <<Rep("digit", 4, 4), Rep("sep", 1, 1), Rep("digit", 2, 2), Rep("sep", 1, 1),
    Rep("digit", 2, 2)>>

\* pattern1 between ^ and $, with the optional (?:[ ]+\d{2}:\d{2}) or without it
pattern1(timed) ==
  DatePattern
    \o (IF timed
          THEN <<Rep("space", 1, -1), Rep("digit", 2, 2), Lit(":"), Rep("digit", 2, 2)>>
          ELSE <<>>)
    \o <<Rep("blank", 1, -1), Rep("nottab", 1, -1), Rep("blank", 1, -1),
         Rep("amount", 1, -1), Lit(" ISK"), Rep("blank", 1, -1), Rep("amount", 1, -1),
         Lit(" ISK"), Rep("blank", 1, -1), Rep("any", 1, -1)>>

pattern2 ==
  DatePattern \o <<Rep("blank", 1, -1), Rep("amount", 1, -1), Rep("blank", 1, -1),
                   Rep("nottab", 1, -1), Rep("blank", 1, -1), Rep("any", 1, -1)>>

pattern3 ==
  DatePattern \o <<Lit(","), Rep("ws", 0, -1), Rep("amount", 1, -1), Lit(","),
                   Rep("ws", 0, -1), Rep("notcomma", 1, -1), Lit(","), Rep("ws", 0, -1),
                   Rep("any", 1, -1)>>

RECURSIVE RunLength(_, _, _)
\* how many characters of the class follow one another from position pos of line
RunLength(line, pos, class) ==
  IF pos > Len(line) \/ ~InClass(CharAt(line, pos), class) THEN 0
  ELSE 1 + RunLength(line, pos + 1, class)

RECURSIVE MatchAll(_, _, _, _, _)
\* Every way the elements k, k + 1, ... of the pattern match at position pos of
\* line: the positions where the elements begin, then the position after the
\* match.  An anchored pattern ends with $.
MatchAll(line, pattern, k, pos, anchored) ==
  IF k > Len(pattern)
    THEN IF anchored /\ pos # Len(line) + 1 THEN {} ELSE {<<pos>>}
  ELSE
    LET e == pattern[k]
    IN  IF e.kind = "lit"
          THEN IF /\ pos + Len(e.text) - 1 <= Len(line)
                  /\ SubSeq(line, pos, pos + Len(e.text) - 1) = e.text
                 THEN {<<pos>> \o m :
                         m \in MatchAll(line, pattern, k + 1, pos + Len(e.text), anchored)}
                 ELSE {}
          ELSE
            LET run == RunLength(line, pos, e.class)
                most == IF e.max >= 0 /\ e.max < run THEN e.max ELSE run
            IN  UNION {{<<pos>> \o m :
                          m \in MatchAll(line, pattern, k + 1, pos + c, anchored)} :
                       c \in e.min..most}

\* The match the regular expression engine finds from position pos, Null if
\* there is none.  The engine tries the longer repetition first, the shorter one
\* for a lazy element: of two matches it finds the one whose element is longer
\* (shorter if lazy) where they first differ.
MatchFrom(line, pattern, pos, anchored) ==
  LET all == MatchAll(line, pattern, 1, pos, anchored)
      Preferred(m, n) ==
        \/ m = n
        \/ \E i \in DOMAIN m :
             /\ m[i] # n[i]
             /\ (m[i] < n[i]) <=> (pattern[i - 1].kind = "rep" /\ pattern[i - 1].lazy)
             /\ \A j \in 1..(i - 1) : m[j] = n[j]
  IN  IF all = {} THEN Null
      ELSE CHOOSE m \in all : \A n \in all : Preferred(m, n)

\* line.match(pattern) for a pattern without ^: the leftmost match
Search(line, pattern) ==
  LET found == [st \in 1..Len(line) |-> MatchAll(line, pattern, 1, st, FALSE) # {}]
      starts == {st \in 1..Len(line) : found[st]}
  IN  IF starts = {} THEN Null
      ELSE MatchFrom(line, pattern, CHOOSE st \in starts : \A u \in starts : st <= u, FALSE)

\* the text of a match m between the beginnings of its elements a and b
Captured(line, m, a, b) == SubSeq(line, m[a], m[b] - 1)

RECURSIVE split(_, _)
\* s.split(separator) for the class of the separating characters
split(s, class) ==
  LET skip == CHOOSE n \in 0..Len(s) :
                /\ \A i \in 1..n : ~InClass(CharAt(s, i), class)
                /\ n = Len(s) \/ InClass(CharAt(s, n + 1), class)
  IN  IF skip = Len(s) THEN <<s>>
      ELSE <<SubSeq(s, 1, skip)>> \o split(SubSeq(s, skip + 2, Len(s)), class)

\* parseDate(dateStr)
parseDate(dateStr) ==
  LET parts == split(dateStr, "sep")
      \* str.padStart(2, '0')
      padStart2(str) ==
        IF Len(str) >= 2 THEN str ELSE IF Len(str) = 1 THEN "0" \o str ELSE "00"
  IN  IF Len(parts) # 3 THEN <<"today", ISODate(now)>>
      ELSE parts[1] \o "-" \o padStart2(parts[2]) \o "-" \o padStart2(parts[3])

RECURSIVE replaceAll(_, _, _)
\* s.replace(/c/g, by)
replaceAll(s, c, by) ==
  IF s = "" THEN ""
  ELSE (IF CharAt(s, 1) = c THEN by ELSE CharAt(s, 1)) \o replaceAll(SubSeq(s, 2, Len(s)), c, by)

RECURSIVE NumberOf(_)
\* the number the decimal digits of s write
NumberOf(s) ==
  IF s = "" THEN 0
  ELSE 10 * NumberOf(SubSeq(s, 1, Len(s) - 1))
         + DigitValue(CharAt(s, Len(s)))

\* parseFloat(s) || 0 for a text of digits and periods: the longest prefix that
\* is a decimal number, 0 if it has no digit
parseFloat(s) ==
  LET whole == RunLength(s, 1, "digit")
      point == whole < Len(s) /\ CharAt(s, whole + 1) = "."
      decimals == IF point THEN RunLength(s, whole + 2, "digit") ELSE 0
  IN  IF whole + decimals = 0 THEN Rat(0, 1)
      ELSE Rat(NumberOf(SubSeq(s, 1, whole) \o SubSeq(s, whole + 2, whole + 1 + decimals)),
               10 ^ decimals)

\* parseAmount(amountStr), amountStr without white space
parseAmount(amountStr) ==
  IF includes(amountStr, ",")
    THEN parseFloat(replaceAll(replaceAll(amountStr, ".", ""), ",", "."))
    ELSE parseFloat(replaceAll(amountStr, ".", ""))

\* determineTransactionType(description, fromTo)
determineTransactionType(description, fromTo) ==
  LET has(keyword) == includes(toLowerCase(description), keyword)
  IN  IF has("bounty") THEN "bounty"
      ELSE IF has("mission") \/ has("agent") \/ has("reward") THEN "mission"
      ELSE IF has("market") \/ has("transaction") \/ has("sell") \/ has("buy") THEN "market"
      ELSE IF has("insurance") THEN "insurance"
      ELSE "other"

\* determineIsIncome(description, fromTo)
determineIsIncome(description, fromTo) ==
  LET has(keyword) == includes(toLowerCase(description), keyword)
  IN  IF has("mission") \/ has("agent") \/ has("bounty") \/ has("reward") THEN TRUE
      ELSE IF has("purchased") \/ has("buy") \/ has("fee") \/ has("tax") THEN FALSE
      ELSE TRUE

\* shouldAutoSelect(type, description)
shouldAutoSelect(type, description) == type = "bounty" \/ type = "mission"

\* the object parseLine returns for the texts it matched; random stands for
\* Math.random().toString(36).substr(2, 9)
Transaction(dateStr, amountStr, fromTo, description, random) ==
  LET date == parseDate(dateStr)
      amount == parseAmount(amountStr)
      type == determineTransactionType(description, fromTo)
  IN  [id |-> <<"tx", date, random>>,
       date |-> date,
       amount |-> IF determineIsIncome(description, fromTo)
                    THEN <<Abs(amount[1]), amount[2]>>
                    ELSE <<0 - Abs(amount[1]), amount[2]>>,
       description |-> description,
       fromTo |-> fromTo,
       type |-> type,
       isSelected |-> shouldAutoSelect(type, description)]

\* line.match(pattern1): the optional time is taken when the rest then matches
Match1(line) ==
  LET timed == MatchFrom(line, pattern1(TRUE), 1, TRUE)
      plain == MatchFrom(line, pattern1(FALSE), 1, TRUE)
      time == Len(pattern1(TRUE)) - Len(pattern1(FALSE))
  IN  IF timed # Null THEN [m |-> timed, rest |-> Len(DatePattern) + time]
      ELSE IF plain # Null THEN [m |-> plain, rest |-> Len(DatePattern)]
      ELSE Null

\* parseLine(line), Null for null
parseLine(line, random) ==
  LET m1 == Match1(line)
      m2 == Search(line, pattern2)
      m3 == Search(line, pattern3)
  IN  IF m1 # Null
        THEN Transaction(Captured(line, m1.m, 1, m1.rest + 1),
                         Captured(line, m1.m, m1.rest + 4, m1.rest + 5),
                         trim(Captured(line, m1.m, m1.rest + 2, m1.rest + 3)),
                         trim(Captured(line, m1.m, m1.rest + 10, m1.rest + 11)), random)
      ELSE IF m2 # Null
        THEN Transaction(Captured(line, m2, 1, 6), Captured(line, m2, 7, 8),
                         trim(Captured(line, m2, 9, 10)), trim(Captured(line, m2, 11, 12)), random)
      ELSE IF m3 # Null
        THEN Transaction(Captured(line, m3, 1, 6), Captured(line, m3, 8, 9),
                         trim(Captured(line, m3, 11, 12)), trim(Captured(line, m3, 14, 15)), random)
      ELSE Null

\* isHeaderLine(line)
isHeaderLine(line) ==
  LET headerKeywords == {"date", "amount", "type", "description", "transaction"}
  IN
  /\ line # ""
  /\ Cardinality({keyword \in headerKeywords : includes(toLowerCase(line), keyword)}) >= 2

\* as parseLines, but giving up at the first line that matches no pattern
RECURSIVE parseLinesAborting(_, _, _)
parseLinesAborting(lines, i, randoms) ==
  IF i > Len(lines) THEN <<>>
  ELSE LET line == trim(lines[i])
       IN  IF line = "" THEN parseLinesAborting(lines, i + 1, randoms)
           ELSE LET transaction == parseLine(line, randoms[i])
                IN  IF transaction = Null THEN <<>>
                    ELSE <<[line |-> i, transaction |-> transaction]>>
                           \o parseLinesAborting(lines, i + 1, randoms)

\* The for loop of parse from line i (counted from 1): the transactions pushed,
\* each with the number of its line.  parseLine throws for no line, the catch
\* is never entered.
RECURSIVE parseLines(_, _, _)
parseLines(lines, i, randoms) ==
  IF i > Len(lines) THEN <<>>
  ELSE LET line == trim(lines[i])
       IN  IF line = "" THEN parseLines(lines, i + 1, randoms)
           ELSE LET transaction == parseLine(line, randoms[i])
                IN  IF transaction = Null THEN parseLines(lines, i + 1, randoms)
                    ELSE <<[line |-> i, transaction |-> transaction]>>
                           \o parseLines(lines, i + 1, randoms)

\* parse(text)
parse(text, randoms) ==
  IF text = "" THEN <<>>
  ELSE LET lines == split(text, "newline")
           startLine == IF isHeaderLine(lines[1]) THEN 1 ELSE 0
       IN  parseLines(lines, startLine + 1, randoms)

MaxLines == 3           \* most lines of a text passed to parse

\* The texts of at most MaxLines lines of a pasted log: one line of each format, a
\* line of no format, a blank line, a header, and a line of format 3 containing
\* two of the header keywords
Texts ==
  LET LogLines ==
        {"2025.07.13 18:22\tBounty\t4 ISK\t9 ISK\tr",
         "2025-07-13 100 CONCORD Bounty",
         "2025/07/13,1.234,56,CONCORD,Fee",
         "hello",
         " ",
         "Date,Amount,Type",
         "2025-07-13,100,CCP,Update type"}
      OfLines[n \in 1..MaxLines] ==
        IF n = 1 THEN LogLines
        ELSE {text \o "\n" \o line : text \in OfLines[n - 1], line \in LogLines}
  IN  {""} \cup UNION {OfLines[n] : n \in 1..MaxLines}

\* TransactionParser.parse(text) is called and returns; randoms is what
\* Math.random() gives for the id of the transaction of each line
Parse ==
  /\ parsed.pc = "idle"
  /\ \E text \in Texts,
        randoms \in {[i \in 1..MaxLines |-> "a"],
                     [i \in 1..MaxLines |-> IF i = 1 THEN "a" ELSE "b"]} :
       parsed' = [pc |-> "done", text |-> text, transactions |-> parse(text, randoms)]

\* the amount written with the given thousands separator and decimal mark
Written(amount, thousands, mark) ==
  LET Joined[i \in 1..Len(amount.groups)] ==
        IF i = 1 THEN amount.groups[1]
        ELSE Joined[i - 1] \o thousands \o amount.groups[i]
  IN  Joined[Len(amount.groups)]
        \o (IF amount.decimals = "" THEN "" ELSE mark \o amount.decimals)

\* parseAmount is applied to an amount in the European and in the American
\* writing; the amounts are digit groups of the whole part and the digits after
\* the decimal point, "" for none
ParseAmount ==
  /\ parsed.pc = "idle"
  /\ \E first \in {"1", "2", "12"},
        rest \in {<<>>} \cup {<<g>> : g \in {"234", "000", "567"}}
                   \cup {<<g, h>> : g, h \in {"234", "000", "567"}},
        decimals \in {"", "5", "89"} :
       LET amount == [groups |-> <<first>> \o rest, decimals |-> decimals]
       IN
       parsed' = [pc |-> "amount", amount |-> amount,
                  european |-> parseAmount(Written(amount, ".", ",")),
                  american |-> parseAmount(Written(amount, ",", "."))]

----------------------------------------------------------------------------
(* parseFitting (src/js/parser.js) *)

\* extractShipType(headerLine): headerLine.match(/^\[([^,]+),/)
extractShipType(headerLine) ==
  LET match == MatchFrom(headerLine, <<Lit("["), Rep("notcomma", 1, -1), Lit(",")>>, 1, FALSE)
  IN  IF match = Null THEN "" ELSE trim(Captured(headerLine, match, 2, 3))

\* as parseItemLine, but taking every line for a single item
parseItemLineSingle(line) == [itemName |-> trim(line), quantity |-> 1]

\* parseItemLine(line): line.match(/^(.+?)\s+x(\d+)$/)
parseItemLine(line) ==
  LET explicitQuantityMatch ==
        MatchFrom(line, <<Lazy("any", 1), Rep("ws", 1, -1), Lit("x"), Rep("digit", 1, -1)>>,
                  1, TRUE)
  IN  IF explicitQuantityMatch # Null
        THEN [itemName |-> trim(Captured(line, explicitQuantityMatch, 1, 2)),
              quantity |-> NumberOf(Captured(line, explicitQuantityMatch, 4, 5))]
        ELSE [itemName |-> trim(line), quantity |-> 1]

\* parseFitting(fittingText), the Map items as a function on its keys
parseFitting(fittingText) ==
  LET trimmed == [i \in DOMAIN split(fittingText, "newline") |->
                    trim(split(fittingText, "newline")[i])]
      lines == SelectSeq(trimmed, LAMBDA line : Len(line) > 0)
      set(items, key, value) ==
        [k \in DOMAIN items \cup {key} |-> IF k = key THEN value ELSE items[k]]
      get(items, key) == IF key \in DOMAIN items THEN items[key] ELSE 0
      \* items after the turn of the for loop for lines[i]
      Items[i \in 1..Len(lines)] ==
        IF i = 1 THEN [k \in {} |-> 0]
        ELSE LET item == parseItemLine(lines[i])
             IN  IF item.itemName # ""
                   THEN set(Items[i - 1], item.itemName,
                            get(Items[i - 1], item.itemName) + item.quantity)
                   ELSE Items[i - 1]
      shipType == extractShipType(lines[1])
  IN  IF fittingText = "" \/ lines = <<>> THEN [shipType |-> "", items |-> [k \in {} |-> 0]]
      ELSE [shipType |-> shipType,
            items |-> IF shipType # "" THEN set(Items[Len(lines)], shipType, 1)
                      ELSE Items[Len(lines)]]

MaxFitLines == 3        \* most lines of a fitting after its header

\* Fittings: a header naming the hull and at most MaxFitLines lines, each with the
\* module and the quantity it stands for: plain lines, lines with a quantity, a
\* blank line, a module named as a hull
FittingInputs ==
  LET FitLines ==
        {[text |-> "Gyrostabilizer II", name |-> "Gyrostabilizer II", quantity |-> 1],
         [text |-> "125mm Gatling AutoCannon II x2", name |-> "125mm Gatling AutoCannon II",
          quantity |-> 2],
         [text |-> "  Gyrostabilizer II  x12 ", name |-> "Gyrostabilizer II", quantity |-> 12],
         [text |-> " ", name |-> "", quantity |-> 0],
         [text |-> "Rifter", name |-> "Rifter", quantity |-> 1]}
  IN
  {[hull |-> header.hull, header |-> header.text, lines |-> lines] :
     header \in {[text |-> "[Rifter, Fit]", hull |-> "Rifter"],
                 [text |-> "[ Cormorant , the, wife]", hull |-> "Cormorant"]},
     lines \in UNION {SeqsOf(FitLines, n) : n \in 0..MaxFitLines}}

\* parseFitting is applied to the text of a fitting
ParseFitting ==
  /\ parsed.pc = "idle"
  /\ \E fit \in FittingInputs :
       LET Text[i \in 0..Len(fit.lines)] ==
             IF i = 0 THEN fit.header ELSE Text[i - 1] \o "\n" \o fit.lines[i].text
       IN  parsed' = [pc |-> "fitting", fit |-> fit, text |-> Text[Len(fit.lines)],
                      returned |-> parseFitting(Text[Len(fit.lines)])]

----------------------------------------------------------------------------
(* InventoryParser (src/js/inventory-parser.js) *)

\* parseLine(line) without its MarketAPI.getItemPrice call, Null for null;
\* random stands for Math.random().toString(36).substr(2, 9)
inventoryParseLine(line, random) ==
  LET parts == split(line, "tab")
      name == trim(parts[1])
      digits == replaceAll(parts[2], ",", "")
      \* parseInt(...) || 1
      parsedInt == ParseIntOrZero([i \in 1..Len(digits) |-> CharAt(digits, i)])
      quantity == IF parsedInt = 0 THEN 1 ELSE parsedInt
      \* isNaN(quantity): quantity is never NaN, the "Name xN" branch is not entered
      isNaN == FALSE
      \* parseIskValue(iskStr): iskStr.replace(/ISK|,|\s/g, ''), parseFloat(...) || 0
      parseIskValue(iskStr) ==
        LET Clean[i \in 1..(Len(iskStr) + 3)] ==
              IF i > Len(iskStr) THEN ""
              ELSE IF i + 2 <= Len(iskStr) /\ SubSeq(iskStr, i, i + 2) = "ISK" THEN Clean[i + 3]
              ELSE IF CharAt(iskStr, i) = "," \/ IsSpace(CharAt(iskStr, i)) THEN Clean[i + 1]
              ELSE CharAt(iskStr, i) \o Clean[i + 1]
        IN  parseFloat(Clean[1])
      withISK == {i \in 3..Len(parts) : includes(parts[i], "ISK")}
      estimatedValue ==
        IF withISK = {} THEN Rat(0, 1)
        ELSE parseIskValue(parts[CHOOSE i \in withISK : \A j \in withISK : i <= j])
  IN  IF Len(parts) < 2 THEN Null
      ELSE [id |-> <<"item", random>>,
            name |-> name,
            quantity |-> IF isNaN /\ includes(name, " x")
                           THEN ParseIntOrZero(split(name, "space")[2])
                           ELSE quantity,
            estimatedValue |-> estimatedValue,
            totalValue |-> Rat(estimatedValue[1] * quantity, estimatedValue[2]),
            \* marketPrice: 0, no price yet
            marketPrice |-> Null]

\* Lines of an inventory with the quantity each stands for, 0 for a blank line:
\* a numeric quantity, one with a thousands separator, a quantity in the name,
\* a missing, an empty and an unparsable quantity, a price column
InventoryLines ==
  {[text |-> "Rifter\t2", quantity |-> 2],
   [text |-> " Rifter \t1,000", quantity |-> 1000],
   [text |-> "Tritanium x5\tStack", quantity |-> 5],
   [text |-> "Rifter", quantity |-> 1],
   [text |-> "Tritanium\t", quantity |-> 1],
   [text |-> "Tritanium\tmany\t1,5 ISK", quantity |-> 1],
   [text |-> "Rifter\t3\tShip\t2.5 ISK", quantity |-> 3],
   [text |-> " ", quantity |-> 0]}

\* the for loop of parse on one line: parseLine is applied to the trimmed line
ParseInventoryLine ==
  /\ parsed.pc = "idle"
  /\ \E line \in InventoryLines :
       parsed' = [pc |-> "inventory", line |-> line,
                  item |-> IF trim(line.text) = "" THEN Null
                           ELSE inventoryParseLine(trim(line.text), "a")]

MaxInventoryLines == 2  \* most lines of a text passed to InventoryParser.parse

\* parse(text) is called: the for loop makes the items; each parseLine has called
\* MarketAPI.getItemPrice(name), and these calls run, each up to its first await,
\* in the order of the lines, followed by getBatchItemPrices(items) (0 in order).
\* When shouldRefreshCache() holds, the call of the first line sets cacheTimestamp
\* in refreshCache and goes on after the rest of the synchronous code.
\* Without items parse returns at once.
InventoryParse ==
  /\ parsed.pc = "idle"
  /\ LET priced == {l.text : l \in {l \in InventoryLines :
                       \/ trim(l.text) = ""
                       \/ inventoryParseLine(trim(l.text), "a") = Null
                       \/ inventoryParseLine(trim(l.text), "a").name \in ItemNames}}
         OfLines[n \in 0..MaxInventoryLines] ==
           IF n = 0 THEN {""}
           ELSE IF n = 1 THEN priced
           ELSE {t \o "\n" \o l : t \in OfLines[n - 1], l \in priced}
     IN  \E text \in UNION {OfLines[n] : n \in 0..MaxInventoryLines} :
           LET lines == split(text, "newline")
               Items[i \in 0..Len(lines)] ==
                 IF i = 0 THEN <<>>
                 ELSE LET line == trim(lines[i])
                          item == IF line = "" THEN Null ELSE inventoryParseLine(line, "a")
                      IN  IF item = Null THEN Items[i - 1] ELSE Append(Items[i - 1], item)
               items == IF text = "" THEN <<>> ELSE Items[Len(lines)]
               rest == [j \in 1..(Len(items) - 1) |-> j + 1]
           IN  /\ parsed' = [pc |-> IF items = <<>> THEN "returned" ELSE "lines",
                             text |-> text, items |-> items,
                             order |-> IF items = <<>> THEN <<>>
                                       ELSE IF shouldRefreshCache THEN rest \o <<0, 1>>
                                       ELSE <<1>> \o rest \o <<0>>,
                             nLookups |-> 0, nSettled |-> 0]
               /\ cacheTimestamp' = IF items # <<>> /\ shouldRefreshCache THEN now
                                    ELSE cacheTimestamp
  /\ UNCHANGED <<priceCache, typeIdCache, lastApiCall, currentPriceHub, calls, lastPrice,
                 lookupRequests, settled, expired, nCalls, nElapse, batch>>

\* the next piece of the synchronous code of parse: the getItemPrice(name) call of
\* parseLine for item k (caller 0 - k) up to its first await, its then-callback
\* if it returned from the cache; or getBatchItemPrices(items) up to batch.map,
\* where parse is suspended
InventoryRun ==
  /\ parsed.pc \in {"lines", "awaiting"}
  /\ parsed.order # <<>>
  /\ batch.pc # "starting"
  /\ LET k == Head(parsed.order)
     IN  IF k = 0
           THEN /\ BeginGroup([batch EXCEPT
                                 !.items = [i \in DOMAIN parsed.items |-> parsed.items[i].name]],
                              0)
                /\ parsed' = [parsed EXCEPT !.order = Tail(parsed.order), !.pc = "awaiting"]
           ELSE /\ getItemPriceFor(parsed.items[k].name, 0 - k)
                /\ parsed' = [parsed EXCEPT
                                !.order = Tail(parsed.order),
                                !.nLookups = @ + 1,
                                !.nSettled = IF calls' = calls THEN @ + 1 ELSE @,
                                !.items[k].marketPrice =
                                   IF calls' = calls THEN lastPrice'.price ELSE @]
                /\ UNCHANGED <<nCalls, nElapse, batch>>

\* the next callback of batch.map calls getItemPrice(item.name)
InventoryBatchStartCall ==
  /\ parsed.pc = "awaiting"
  /\ BatchStartCall
  /\ parsed' = [parsed EXCEPT !.nLookups = @ + 1,
                              !.nSettled = IF calls' = calls THEN @ + 1 ELSE @]

\* a step of a suspended getItemPrice call; when it returns, the callback of
\* batch.map resolves with { name, price } (caller > 0) or the then-callback of
\* parseLine sets item.marketPrice (caller < 0)
InventoryCallStep(step) ==
  /\ parsed.pc \in {"awaiting", "returned"}
  /\ parsed.order = <<>>
  /\ batch.pc # "starting"
  /\ step
  /\ IF BagCardinality(calls') < BagCardinality(calls)
       THEN LET c == CHOOSE c \in BagToSet(calls (-) calls') : TRUE
            IN  IF c.caller > 0
                  THEN /\ batch' = [batch EXCEPT !.results[c.caller] = lastPrice'.price]
                       /\ parsed' = [parsed EXCEPT !.nSettled = @ + 1]
                  ELSE /\ parsed' = [parsed EXCEPT
                                       !.nSettled = @ + 1,
                                       !.items[0 - c.caller].marketPrice = lastPrice'.price]
                       /\ UNCHANGED batch
       ELSE UNCHANGED <<batch, parsed>>

\* `await MarketAPI.getBatchItemPrices(items)` is over: item.marketPrice =
\* priceMap[item.name] for each item, then `return items`
InventoryReturn ==
  /\ parsed.pc = "awaiting"
  /\ parsed.order = <<>>
  /\ batch.pc = "done"
  /\ parsed' = [parsed EXCEPT
                  !.pc = "returned",
                  !.items = [i \in DOMAIN parsed.items |->
                               IF batch.priceMap[parsed.items[i].name] # Null
                                 THEN [parsed.items[i] EXCEPT
                                         !.marketPrice = batch.priceMap[parsed.items[i].name]]
                                 ELSE parsed.items[i]]]
  /\ UNCHANGED <<marketVars, batch>>

missionFrame ==
  UNCHANGED <<tz, activeMission, timerInterval, selectedTransactions, inventoryItems,
              activeMissionItem, timerDisplay, missions, pending, initPc, lastResult,
              nStarts, nAdvance, opened>>

----------------------------------------------------------------------------
(* Specifications *)

Init ==
  /\ MissionInit /\ MarketInit
  /\ batch = [pc |-> "idle", items |-> <<>>, i |-> 0, order |-> <<>>, results |-> <<>>,
              priceMap |-> [n \in ItemNames |-> Null], wake |-> 0]
  /\ pricing = [pc |-> "idle", response |-> Null, price |-> NoPrice, fuzzwork |-> FALSE]
  /\ estimated = <<>>
  /\ parsed = [pc |-> "idle", text |-> "", transactions |-> <<>>]

\* the mission tracker, the market API at rest
Next ==
  \/ StartMission /\ UNCHANGED <<marketVars, batch, pureVars>>
  \/ CompleteMission /\ UNCHANGED <<marketVars, batch, pureVars>>
  \/ CompleteMissionResume /\ UNCHANGED <<marketVars, batch, pureVars>>
  \/ GetActiveMission /\ UNCHANGED <<marketVars, batch, pureVars>>
  \/ TimerTick /\ UNCHANGED <<marketVars, batch, pureVars>>
  \/ SetSelectedTransactions /\ UNCHANGED <<marketVars, batch, pureVars>>
  \/ SetInventoryItems /\ UNCHANGED <<marketVars, batch, pureVars>>
  \/ InitApp /\ UNCHANGED <<marketVars, batch, pureVars>>
  \/ Reload /\ UNCHANGED <<marketVars, batch, pureVars>>
  \/ Advance /\ UNCHANGED <<marketVars, batch, pureVars>>

Spec == Init /\ [][Next]_vars

NextCorrupt == Next \/ (CorruptStoredMission /\ UNCHANGED <<marketVars, batch, pureVars>>)

SpecCorrupt == Init /\ [][NextCorrupt]_vars

\* the market API, the mission tracker at rest
InitMarket == Init /\ tz = 0

NextMarket ==
  \/ GetItemPrice /\ UNCHANGED now /\ missionFrame /\ UNCHANGED <<batch, pureVars>>
  \/ RateLimitWake /\ UNCHANGED now /\ missionFrame /\ UNCHANGED <<batch, pureVars>>
  \/ LookupResponse /\ UNCHANGED now /\ missionFrame /\ UNCHANGED <<batch, pureVars>>
  \/ OrdersResponse /\ UNCHANGED now /\ missionFrame /\ UNCHANGED <<batch, pureVars>>
  \/ SetPriceHub /\ UNCHANGED now /\ missionFrame /\ UNCHANGED <<batch, pureVars>>
  \/ ClearAllCaches /\ UNCHANGED now /\ missionFrame /\ UNCHANGED <<batch, pureVars>>
  \/ Elapse /\ missionFrame /\ UNCHANGED <<batch, pureVars>>
  \/ TimerElapse /\ missionFrame /\ UNCHANGED <<batch, pureVars>>

SpecMarket == InitMarket /\ [][NextMarket]_vars

\* one getBatchItemPrices call and the calls it makes.  The event loop runs every
\* task that is ready, every request is answered or fails, every timer fires.
NextBatch ==
  \/ GetBatchItemPrices /\ UNCHANGED now /\ missionFrame /\ UNCHANGED pureVars
  \/ BatchStartCall /\ UNCHANGED now /\ missionFrame /\ UNCHANGED pureVars
  \/ BatchCallStep(RateLimitWake) /\ UNCHANGED now /\ missionFrame /\ UNCHANGED pureVars
  \/ BatchCallStep(LookupResponse) /\ UNCHANGED now /\ missionFrame /\ UNCHANGED pureVars
  \/ BatchCallStep(OrdersResponse) /\ UNCHANGED now /\ missionFrame /\ UNCHANGED pureVars
  \/ BatchGroupDone /\ UNCHANGED now /\ missionFrame /\ UNCHANGED pureVars
  \/ BatchPauseElapse /\ missionFrame /\ UNCHANGED pureVars
  \/ BatchResume /\ UNCHANGED now /\ missionFrame /\ UNCHANGED pureVars
  \/ TimerElapse /\ missionFrame /\ UNCHANGED <<batch, pureVars>>

\* one getPrices call
NextPrices ==
  \/ GetPrices /\ UNCHANGED <<missionVars, marketVars, batch, estimated, parsed>>
  \/ GetPricesSettle /\ UNCHANGED <<missionVars, marketVars, batch, estimated, parsed>>

SpecPrices == InitMarket /\ [][NextPrices]_vars

\* one call of a parser
NextParse ==
  \/ Parse /\ UNCHANGED <<missionVars, marketVars, batch, pricing, estimated>>
  \/ ParseAmount /\ UNCHANGED <<missionVars, marketVars, batch, pricing, estimated>>
  \/ ParseFitting /\ UNCHANGED <<missionVars, marketVars, batch, pricing, estimated>>
  \/ ParseInventoryLine /\ UNCHANGED <<missionVars, marketVars, batch, pricing, estimated>>

SpecParse == InitMarket /\ [][NextParse]_vars

\* calls of estimateItemPrice
NextEstimate ==
  EstimateItemPrice /\ UNCHANGED <<missionVars, marketVars, batch, pricing, parsed>>

SpecEstimate == InitMarket /\ [][NextEstimate]_vars

SpecBatch == InitMarket /\ [][NextBatch]_vars /\ WF_vars(NextBatch)

\* one InventoryParser.parse call and the price calls it makes; the texts have at
\* most batchSize items, so that getBatchItemPrices has a single group
NextInventory ==
  \/ InventoryParse /\ UNCHANGED now /\ missionFrame /\ UNCHANGED <<pricing, estimated>>
  \/ InventoryRun /\ UNCHANGED now /\ missionFrame /\ UNCHANGED <<pricing, estimated>>
  \/ InventoryBatchStartCall /\ UNCHANGED now /\ missionFrame /\ UNCHANGED <<pricing, estimated>>
  \/ InventoryCallStep(RateLimitWake) /\ UNCHANGED now /\ missionFrame /\ UNCHANGED <<pricing, estimated>>
  \/ InventoryCallStep(LookupResponse) /\ UNCHANGED now /\ missionFrame /\ UNCHANGED <<pricing, estimated>>
  \/ InventoryCallStep(OrdersResponse) /\ UNCHANGED now /\ missionFrame /\ UNCHANGED <<pricing, estimated>>
  \/ (parsed.pc = "awaiting" /\ parsed.order = <<>> /\ BatchGroupDone)
       /\ UNCHANGED now /\ missionFrame /\ UNCHANGED pureVars
  \/ InventoryReturn /\ UNCHANGED now /\ missionFrame /\ UNCHANGED <<pricing, estimated>>
  \/ (parsed.pc \in {"awaiting", "returned"} /\ parsed.order = <<>> /\ TimerElapse)
       /\ missionFrame /\ UNCHANGED <<batch, pureVars>>

SpecInventory == InitMarket /\ [][NextInventory]_vars

----------------------------------------------------------------------------
(* Properties of the session state machine *)

\* C1: a startMission call made while a session is held in memory throws the
\* "already active" error and leaves the in-memory session, the stored text and
\* the timer (interval and display) as they were.
C1_StartRejectedWhileActive ==
  [][(StartMission /\ activeMission # Null) =>
       /\ lastResult' = [op |-> "startMission", error |-> "AlreadyActive", value |-> Null]
       /\ activeMission' = activeMission
       /\ activeMissionItem' = activeMissionItem
       /\ timerInterval' = timerInterval
       /\ timerDisplay' = timerDisplay]_vars

\* a second start was refused while the first session was running
C1_Witness ==
  /\ lastResult.op = "startMission" /\ lastResult.error = "AlreadyActive"
  /\ activeMission # Null /\ activeMissionItem = JSONstringify(activeMission)
  /\ timerInterval

\* C2: at most one session is open at any time, that is, no startMission succeeds
\* while a session that was started and not completed exists in memory or in
\* localStorage.
C2_AtMostOneOpenSession == Cardinality(opened) <= 1

\* C3: a completeMission call made while no session is held in memory throws the
\* "no active mission" error, calls addMission for nothing and leaves the session,
\* the stored text and the staged transactions and inventory as they were.
C3_CompleteRejectedWhenIdle ==
  [][(CompleteMission /\ activeMission = Null) =>
       /\ lastResult' = [op |-> "completeMission", error |-> "NoActiveSession", value |-> Null]
       /\ pending' = pending
       /\ missions' = missions
       /\ activeMission' = Null
       /\ activeMissionItem' = activeMissionItem
       /\ selectedTransactions' = selectedTransactions
       /\ inventoryItems' = inventoryItems]_vars

\* a completion was refused with data staged and nothing was handed over
C3_Witness ==
  /\ lastResult.op = "completeMission" /\ lastResult.error = "NoActiveSession"
  /\ activeMission = Null
  /\ selectedTransactions # <<>> /\ inventoryItems # <<>>
  /\ pending = <<>>

\* C4: when completeMission succeeds, the record it passed to addMission is in the
\* store by the time the session is cleared, and afterwards the in-memory session
\* and localStorage are empty, nothing is staged, the timer is stopped and a
\* startMission call is accepted.
C4_CompleteClearsSession ==
  [][(CompleteMissionResume /\ lastResult'.error = "none") =>
       /\ Head(pending) \in missions'
       /\ activeMission # Null => activeMission.id = Head(pending)
       /\ activeMission' = Null
       /\ activeMissionItem' = Null
       /\ selectedTransactions' = <<>>
       /\ inventoryItems' = <<>>
       /\ timerInterval' = FALSE]_vars

\* C5: the record passed to addMission (activeMission as completeMission filled it
\* in) has totalTimeMinutes >= 1.
C5_TotalTimeAtLeastOneMinute ==
  (activeMission # Null /\ "totalTimeMinutes" \in DOMAIN activeMission) =>
     activeMission.totalTimeMinutes[1] >= activeMission.totalTimeMinutes[2]

\* a session completed in the second it was started is awaiting addMission
C5_Witness ==
  /\ pending # <<>>
  /\ activeMission # Null /\ "endTime" \in DOMAIN activeMission
  /\ activeMission.endTime = activeMission.startTime
  /\ activeMission.totalTimeMinutes = <<1, 1>>

\* C6: when addMission rejects the record, completeMission throws, the session is
\* still active in memory and in localStorage, and the staged transactions and
\* inventory are kept.
C6_RejectionKeepsSession ==
  [][(CompleteMissionResume /\ lastResult'.error = "PersistenceFailure") =>
       /\ activeMission' # Null
       /\ activeMissionItem' # Null
       /\ selectedTransactions' = selectedTransactions
       /\ inventoryItems' = inventoryItems]_vars

\* C7: for every session started and not completed, a reload followed by
\* getActiveMission() returns a session with its id and its startTime.
C7_ReloadResumesSession ==
  \A o \in opened :
    LET got == getActiveMission(Null, activeMissionItem)
    IN  /\ got.returned # Null
        /\ got.returned.id = o.id
        /\ got.returned.startTime = o.startTime

\* C8: getActiveMission() returns the in-memory session when there is one and
\* otherwise the session parsed from localStorage; when the stored text does not
\* parse it throws nothing, returns no session, removes the text and leaves no
\* session in memory, so that startMission is accepted.
C8_GetActiveMissionRecovers ==
  [][GetActiveMission =>
       /\ lastResult'.op = "getActiveMission" /\ lastResult'.error = "none"
       /\ IF activeMission # Null
            THEN /\ lastResult'.value = activeMission.id
                 /\ activeMission' = activeMission
                 /\ activeMissionItem' = activeMissionItem
          ELSE IF activeMissionItem = Null
            THEN /\ lastResult'.value = Null
                 /\ activeMission' = Null
                 /\ activeMissionItem' = Null
          ELSE IF activeMissionItem.text = "object"
            THEN /\ lastResult'.value = activeMissionItem.value.id
                 /\ activeMission' = activeMissionItem.value
                 /\ activeMissionItem' = activeMissionItem
          ELSE /\ lastResult'.value = Null
               /\ activeMission' = Null
               /\ activeMissionItem' = Null]_vars

\* the text of the only session ever started was damaged, and getActiveMission()
\* returned no session and emptied localStorage
C8_Witness ==
  /\ nStarts = 1 /\ opened # {} /\ missions = {}
  /\ lastResult.op = "getActiveMission" /\ lastResult.value = Null
  /\ activeMission = Null
  /\ activeMissionItem = Null

\* sum of the amounts of the transactions at the indices in S
RECURSIVE AmountSum(_, _)
AmountSum(txs, S) ==
  IF S = {} THEN 0
  ELSE LET i == CHOOSE j \in S : TRUE IN txs[i].amount + AmountSum(txs, S \ {i})

\* sum of the totalValue of the items at the indices in S
RECURSIVE ValueSum(_, _)
ValueSum(items, S) ==
  IF S = {} THEN 0
  ELSE LET i == CHOOSE j \in S : TRUE IN items[i].totalValue + ValueSum(items, S \ {i})

\* the numbers the expense inputs of ExpenseForms stand for
SuppliedExpenses ==
  { [ammo |-> 0, repairs |-> 0, other |-> 0], [ammo |-> 12, repairs |-> 0 - 2, other |-> 3] }

\* C9: the record completeMission passes to addMission has
\* iskPerHour = (totalIncome - totalExpenses) / totalTimeMinutes * 60, with
\* totalIncome = bounties + missionReward + timeBonus + lootValue taken from the
\* selected transactions and the staged inventory at the call, and
\* totalExpenses = ammo + repairs + other as entered in the expense inputs.
C9_IskPerHour ==
  [][(CompleteMission /\ activeMission # Null) =>
       LET r   == activeMission'
           txs == selectedTransactions
           bountyIx == {i \in DOMAIN txs : txs[i].type = "bounty"}
           bonusIx  == {i \in DOMAIN txs : txs[i] = TimeBonus}
           rewardIx == {i \in DOMAIN txs : txs[i] = Reward}
           pricedIx == {i \in DOMAIN inventoryItems :
                          "totalValue" \in DOMAIN inventoryItems[i]}
           totalIncome   == r.income.bounties + r.income.missionReward
                            + r.income.timeBonus + r.income.lootValue
           totalExpenses == r.expenses.ammo + r.expenses.repairs + r.expenses.other
       IN  /\ r.income.bounties = AmountSum(txs, bountyIx)
           /\ r.income.missionReward = AmountSum(txs, rewardIx)
           /\ r.income.timeBonus = AmountSum(txs, bonusIx)
           /\ r.income.lootValue = ValueSum(inventoryItems, pricedIx)
           /\ r.expenses \in SuppliedExpenses
           /\ r.iskPerHour[2] > 0
           /\ r.iskPerHour[1] * r.totalTimeMinutes[1]
                = (totalIncome - totalExpenses) * 60 * r.totalTimeMinutes[2] * r.iskPerHour[2]]_vars

\* a session of 100 seconds with income 29 and expenses 13 is awaiting addMission
\* with iskPerHour = 16 / (5/3) * 60 = 576
C9_Witness ==
  /\ pending # <<>>
  /\ activeMission # Null /\ "iskPerHour" \in DOMAIN activeMission
  /\ activeMission.totalTimeMinutes = <<5, 3>>
  /\ activeMission.income = [bounties |-> 10, missionReward |-> 7, timeBonus |-> 2, lootValue |-> 10]
  /\ activeMission.expenses = [ammo |-> 12, repairs |-> 0 - 2, other |-> 3]
  /\ activeMission.iskPerHour = <<576, 1>>

\* C10: a timer callback changes neither the in-memory session nor localStorage; the
\* elapsed time it shows, which is also what getCurrentDuration() reports, is the
\* current clock minus the start date and time of the session, 0 when that is
\* negative, so that the display never shows a negative field; and the
\* totalTimeMinutes that completeMission
\* computes is determined by the start time of the session and the clock at the
\* call, whatever the timer has shown.
C10_TimerObservational ==
  /\ [](timerDisplay # Null =>
          /\ timerDisplay.hours >= 0
          /\ timerDisplay.minutes \in 0..59
          /\ timerDisplay.seconds \in 0..59)
  /\ [][/\ TimerTick =>
             /\ activeMission' = activeMission
             /\ activeMissionItem' = activeMissionItem
             /\ activeMission # Null =>
                  LET started == ParseDateTime(activeMission.date, activeMission.startTime)
                      elapsed == IF now < started THEN 0 ELSE now - started
                  IN  /\ timerDisplay' = getCurrentDuration(activeMission, now)
                      /\ timerDisplay'.hours * MsPerHour + timerDisplay'.minutes * MsPerMin
                           + timerDisplay'.seconds * MsPerSec <= elapsed
                      /\ elapsed < timerDisplay'.hours * MsPerHour
                           + timerDisplay'.minutes * MsPerMin
                           + (timerDisplay'.seconds + 1) * MsPerSec
                      /\ timerDisplay'.hours >= 0
                      /\ timerDisplay'.minutes \in 0..59
                      /\ timerDisplay'.seconds \in 0..59
        /\ (CompleteMission /\ activeMission # Null) =>
             LET startSec == activeMission.startTime[1] * 3600
                             + activeMission.startTime[2] * 60 + activeMission.startTime[3]
                 endSec   == ((now + tz) % MsPerDay) \div MsPerSec
                 t        == activeMission'.totalTimeMinutes
             IN  IF endSec - startSec >= 60
                   THEN t[1] * 60 = (endSec - startSec) * t[2]
                   ELSE t = <<1, 1>>]_vars

\* the timer runs for a session whose start date and time lie ahead of the clock
\* (UTC date, local time of day, west of Greenwich) and shows 00:00:00
C10_Witness ==
  /\ timerInterval
  /\ activeMission # Null
  /\ now < ParseDateTime(activeMission.date, activeMission.startTime)
  /\ timerDisplay = [hours |-> 0, minutes |-> 0, seconds |-> 0]

\* C11: a getActiveMission call that follows another one, with no startMission,
\* completeMission or page load having returned in between, returns the same
\* session identifier (or again no session) as the call before it.
C11_GetActiveMissionIdempotent ==
  [][(GetActiveMission /\ lastResult.op = "getActiveMission") =>
       lastResult'.value = lastResult.value]_vars

\* after a reload, and before initApp got that far, getActiveMission() has loaded
\* the session from localStorage; the next call is served from memory
C11_Witness ==
  /\ lastResult.op = "getActiveMission" /\ lastResult.value # Null
  /\ initPc = "loading" /\ ~timerInterval
  /\ activeMission # Null /\ activeMission.id = lastResult.value
  /\ activeMissionItem = JSONstringify(activeMission)


(***************************************************************************)
(* Properties of the price resolver                                        *)
(***************************************************************************)

\* the call getItemPrice(itemName) of a step returned from the cache: it issued
\* no name lookup and no order request, and set no timer
ServedWithoutRequest ==
  /\ calls' = calls
  /\ lookupRequests' = lookupRequests
  /\ lastPrice'.fetched = FALSE

\* C12: once a getItemPrice call for a name has returned a price, every later
\* getItemPrice call within the expiry window for a name with the same
\* normalized form returns that same price and issues no network request, as
\* long as no hub switch and no cache clear happened in between.
C12_CacheHitSamePrice ==
  [][\A itemName \in ItemNames :
       (getItemPrice(itemName) /\ settled[KeyOf[itemName]] # Null) =>
         /\ ServedWithoutRequest
         /\ lastPrice'.name = itemName
         /\ lastPrice'.price = settled[KeyOf[itemName]]]_vars



\* C13: a cached price is invalidated 60 minutes after it was cached: a
\* getItemPrice call made later than that is not served the cached value, it
\* starts a fresh lookup.
C13_ExpiredEntryRefetched ==
  [][\A itemName \in ItemNames :
       (getItemPrice(itemName) /\ expired[KeyOf[itemName]]) =>
         /\ calls' # calls
         /\ lastPrice' = lastPrice]_vars

\* C14: a price-hub switch (setPriceHub with a valid hub) and an explicit cache
\* clear (clearAllCaches) both empty the price cache and leave the cache of type
\* identifiers as it was.
C14_InvalidationKeepsTypeIds ==
  [][((\E hub \in HubArguments : hub # "" /\ setPriceHub(hub)) \/ ClearAllCaches) =>
       /\ \A k \in CacheKeys : priceCache'[k] = Null
       /\ typeIdCache' = typeIdCache]_vars

\* C15: any two outbound name-lookup requests are at least MIN_API_INTERVAL
\* (100 ms) apart, whatever the interleaving of the lookups in flight.
C15_LookupsSpaced ==
  [][(lookupRequests'.count > lookupRequests.count /\ lookupRequests.count > 0) =>
       lookupRequests'.last - lookupRequests.last >= MIN_API_INTERVAL]_vars



C17_FallbackToFuzzwork ==
  (pricing.pc = "done" /\ pricing.price = NoPrice)
    => pricing.fuzzwork

C19_EstimatorDeterministic ==
  /\ \A i, j \in DOMAIN estimated :
       estimated[i].name = estimated[j].name => estimated[i].value = estimated[j].value
  /\ \A i \in DOMAIN estimated :
       LET value == estimated[i].value
           \* the ship categories in the order estimateItemPrice tests them, each
           \* with the lower end and the width of its band
           ShipBands ==
             <<[keyword |-> "titan",         low |-> Sci(6, 10),  width |-> Sci(4, 10)],
               [keyword |-> "supercarrier",  low |-> Sci(15, 9),  width |-> Sci(1, 10)],
               [keyword |-> "dreadnought",   low |-> Sci(15, 8),  width |-> Sci(1, 9)],
               [keyword |-> "carrier",       low |-> Sci(1, 9),   width |-> Sci(5, 8)],
               [keyword |-> "battleship",    low |-> Sci(15, 7),  width |-> Sci(2, 8)],
               [keyword |-> "cruiser",       low |-> Sci(3, 7),   width |-> Sci(5, 7)],
               [keyword |-> "battlecruiser", low |-> Sci(5, 7),   width |-> Sci(1, 8)],
               [keyword |-> "frigate",       low |-> Sci(1, 6),   width |-> Sci(5, 6)],
               [keyword |-> "destroyer",     low |-> Sci(2, 6),   width |-> Sci(8, 6)]>>
           \* the band of a name of no category
           DefaultBand == [keyword |-> "", low |-> Sci(1, 5), width |-> Sci(5, 5)]
           matching == {k \in DOMAIN ShipBands :
                          includes(toLowerCase(estimated[i].name), ShipBands[k].keyword)}
           \* the band of the first category whose keyword the name contains
           band == IF matching = {} THEN DefaultBand
                   ELSE ShipBands[CHOOSE k \in matching : \A j \in matching : k <= j]
       IN  /\ value.base = band.low /\ value.range = band.width
           /\ 0 <= value.random[1] /\ value.random[1] < value.random[2]


(***************************************************************************)
(* Properties of the transaction parser                                    *)
(***************************************************************************)

\* the numbers of the lines the transactions returned came from, in their order
ParsedLines == [k \in DOMAIN parsed.transactions |-> parsed.transactions[k].line]

\* the numbers of the non-blank lines of the text that match a pattern, ascending
MatchingLines(lines) ==
  LET MatchesGrammar(line) ==
        Match1(line) # Null \/ Search(line, pattern2) # Null \/ Search(line, pattern3) # Null
  IN  SelectSeq([i \in 1..Len(lines) |-> i],
                LAMBDA i : trim(lines[i]) # "" /\ MatchesGrammar(trim(lines[i])))

\* C20 as claimed: parse returns exactly one transaction for every non-blank line
\* of the text that matches one of the three grammars, in the order of the lines,
\* and skips every other line without giving up.
C20_OnePerMatchingLine ==
  parsed.pc = "done" =>
    ParsedLines = MatchingLines(split(parsed.text, "newline"))

\* C20 as the code has it: parse returns exactly one transaction for every
\* non-blank line that matches one of the three grammars, in the order of the
\* lines, except for a first line containing two or more of the header keywords,
\* which is skipped as a header whatever it matches; every other line is
\* skipped without giving up.
C20_OnePerMatchingLineAfterHeader ==
  parsed.pc = "done" =>
    LET lines == split(parsed.text, "newline")
    IN  ParsedLines = SelectSeq(MatchingLines(lines),
                                LAMBDA i : ~(i = 1 /\ isHeaderLine(lines[1])))

\* a text of a first line of format 3 that holds two header keywords, a line of
\* no format and a line of format 2 was parsed: the third line alone was returned
C20_Witness ==
  /\ parsed.pc = "done"
  /\ parsed.text = "2025-07-13,100,CCP,Update type\nhello\n2025-07-13 100 CONCORD Bounty"
  /\ ParsedLines = <<3>>
  /\ parsed.transactions[1].transaction.type = "bounty"


(***************************************************************************)
(* Properties of the duration and of the hand-over to persistence          *)
(***************************************************************************)

\* C26: the totalTimeMinutes recorded by completeMission is the larger of 1 and
\* the minutes of wall-clock time between the start of the session (the instant
\* kept in its id) and the completion, also when the completion falls on a later
\* calendar day than the start.
C26_TotalTimeIsElapsedTime ==
  [][(CompleteMission /\ activeMission # Null) =>
       activeMission'.totalTimeMinutes
         = MathMax(Rat(now - activeMission.id[3], MsPerMin), Rat(1, 1))]_vars

\* C30: a session is handed to addMission at most once: no two completeMission
\* invocations await addMission for the same session, and none awaits it for a
\* session that is already stored.
C30_AtMostOneAddMission ==
  /\ \A i, j \in DOMAIN pending : i # j => pending[i] # pending[j]
  /\ \A i \in DOMAIN pending : pending[i] \notin missions

(***************************************************************************)
(* Properties of the caches of the price resolver                          *)
(***************************************************************************)

\* C27: the price cache holds only prices read from the market; an estimate
\* returned because a lookup failed is not cached, and the next getItemPrice call
\* for the name starts a lookup again.
C27_EstimatesNotCached ==
  /\ [](\A k \in CacheKeys : priceCache[k] # Null => priceCache[k].source = "market")
  /\ [][\A itemName \in ItemNames :
          (/\ getItemPrice(itemName)
           /\ settled[KeyOf[itemName]] # Null
           /\ settled[KeyOf[itemName]].source = "estimate") => calls' # calls]_vars

\* C28: once a name lookup has resolved to no type identifier, a later
\* getItemPrice call for a name of the same normalized form sends no name-lookup
\* request and waits for none.
C28_NegativeLookupCached ==
  [][\A itemName \in ItemNames :
       (getItemPrice(itemName) /\ typeIdCache[KeyOf[itemName]] = 0) =>
         /\ lookupRequests' = lookupRequests
         /\ \A c \in BagToSet(calls') :
              c.pc \in {"sleep", "lookup"} => CopiesIn(c, calls') <= CopiesIn(c, calls)]_vars

\* C29: the price cache holds no market price that was fetched for a hub other
\* than the current one, also when a lookup started before a hub switch is
\* answered after it.
C29_CacheOfCurrentHub ==
  \A k \in CacheKeys :
    (priceCache[k] # Null /\ priceCache[k].source = "market")
      => priceCache[k].hub = currentPriceHub


(***************************************************************************)
(* Properties of parseAmount and parseFitting                              *)
(***************************************************************************)

\* C21: an amount written with periods between the thousands and a decimal comma
\* and the same amount written with commas between the thousands and a decimal
\* point parse to the same number, the number written; "1.234.567,89" and
\* "1,234,567.89" both parse to 1234567.89.
C21_AmountFormatInvariant ==
  parsed.pc = "amount" =>
    LET Whole[i \in 1..Len(parsed.amount.groups)] ==
          IF i = 1 THEN parsed.amount.groups[1]
          ELSE Whole[i - 1] \o parsed.amount.groups[i]
        value == Rat(NumberOf(Whole[Len(parsed.amount.groups)] \o parsed.amount.decimals),
                     10 ^ Len(parsed.amount.decimals))
    IN  /\ parsed.european = parsed.american
        /\ parsed.european = value
        /\ parsed.amount = [groups |-> <<"1", "234", "567">>, decimals |-> "89"]
             => parsed.american = Rat(123456789, 100)

\* C25: parseFitting maps every module name other than the hull to the sum of the
\* quantities of the lines carrying it (1 for a plain line, N for a line ending
\* in " xN"), and the hull named before the first comma of the bracketed first
\* line to 1; it has no other entries, blank lines contribute nothing.
C25_FittingQuantities ==
  parsed.pc = "fitting" =>
    LET fit == parsed.fit
        items == parsed.returned.items
        modules == {fit.lines[i].name : i \in DOMAIN fit.lines} \ {"", fit.hull}
        Total[name \in modules, i \in 0..Len(fit.lines)] ==
          IF i = 0 THEN 0
          ELSE Total[name, i - 1]
                 + (IF fit.lines[i].name = name THEN fit.lines[i].quantity ELSE 0)
    IN  /\ parsed.returned.shipType = fit.hull
        /\ DOMAIN items = modules \cup {fit.hull}
        /\ items[fit.hull] = 1
        /\ \A name \in modules : items[name] = Total[name, Len(fit.lines)]

\* the fitting "[Rifter, Fit]", "Gyrostabilizer II" twice, "125mm Gatling
\* AutoCannon II x2" was parsed: the hull once, two of each module
C25_Witness ==
  /\ parsed.pc = "fitting"
  /\ parsed.text
       = "[Rifter, Fit]\nGyrostabilizer II\nGyrostabilizer II\n125mm Gatling AutoCannon II x2"
  /\ parsed.returned.shipType = "Rifter"
  /\ parsed.returned.items["Rifter"] = 1
  /\ parsed.returned.items["Gyrostabilizer II"] = 2
  /\ parsed.returned.items["125mm Gatling AutoCannon II"] = 2


(***************************************************************************)
(* Properties of the inventory parser                                      *)
(***************************************************************************)

\* C22: for every non-blank inventory line the parser yields one item whose
\* quantity is a positive integer: the number of the quantity column, N for a
\* name "Name xN" with a quantity column that is no number, 1 when the quantity
\* is absent or unparsable.
C22_InventoryQuantity ==
  (parsed.pc = "inventory" /\ trim(parsed.line.text) # "") =>
    /\ parsed.item # Null
    /\ parsed.item.quantity \in Nat \ {0}
    /\ parsed.item.quantity = parsed.line.quantity

\* C23: InventoryParser.parse returns the list of items without waiting for a
\* price: no price call it made has settled before the list is returned.
C23_ReturnsBeforePrices ==
  (parsed.pc \in {"lines", "awaiting"}) => parsed.nSettled = 0

\* C24: one batch price call is made, after all lines are parsed, and at most one
\* price lookup is made per distinct item name.
C24_OneLookupPerName ==
  (parsed.pc \in {"lines", "awaiting", "returned"}) =>
    /\ batch.pc # "idle" => Len(batch.items) = Len(parsed.items)
    /\ parsed.nLookups <= Cardinality({parsed.items[i].name : i \in DOMAIN parsed.items})

====
